---- MODULE Spec2Model ----
(***************************************************************************)
(* NARUU core: content pipeline state machine, plugin manager,             *)
(* orchestrator and event bus, modelled from backend/naruu_core.           *)
(*                                                                         *)
(* The specifications share one set of variables:                          *)
(*   SpecPipeline  ContentCRUD.advance_pipeline + ScriptGenerator          *)
(*   SpecRest      the content routes of the REST API, with a client that  *)
(*                 keeps advancing (weak fairness)                         *)
(*   SpecManager   PluginManager + Orchestrator (tasks interleave at       *)
(*                 their await points)                                     *)
(*   SpecRegistry  PluginManager called directly, one call more            *)
(*   SpecDiscover  PluginManager.discover beside register and unregister   *)
(*   SpecRouting   Orchestrator.route on a registry of up to MaxPlugins    *)
(*                 plugins                                                 *)
(*   SpecBus       EventBus subscribe / unsubscribe / publish              *)
(*   SpecHistory   EventBus history: publish beyond its capacity, and      *)
(*                 get_history                                             *)
(* Money is counted in millionths of a dollar so that the cost arithmetic  *)
(* stays in the integers.                                                  *)
(***************************************************************************)
EXTENDS Integers, Sequences, FiniteSets, TLC

VARIABLES
    contents,     \* content_id -> Content row, or NoContent
    pipeCall,     \* observation of the last ContentCRUD call
    updates,      \* number of update_content calls made so far
    plugins,      \* PluginManager._plugins, in insertion order
    statuses,     \* PluginManager._statuses
    history,      \* EventBus._history of the manager's bus
    task,         \* one frame per concurrently running caller
    calls,        \* number of calls started so far
    handlers,     \* EventBus._handlers, one list per event type
    pub,          \* one frame per caller of EventBus.publish
    publishes     \* number of publish calls started so far

pipeVars == <<contents, pipeCall, updates>>

mgrVars == <<plugins, statuses, history, task, calls>>

registryVars == <<plugins, statuses, task, calls>>

busVars == <<handlers, pub, publishes>>

vars == <<contents, pipeCall, updates, plugins, statuses, history, task, calls,
          handlers, pub, publishes>>

(***************************************************************************)
(* Content pipeline                                                        *)
(***************************************************************************)

\* bounds of the pipeline model
MaxRecords == 1
MaxUpdates == 1

ContentIds == 1..MaxRecords

NoContent == [absent |-> TRUE]

\* mutant: the last two stages listed in the wrong order
PIPELINE_ORDER_DoneBeforePublish ==
    <<"pending", "script", "image", "voice", "video", "done", "publish">>

PIPELINE_ORDER ==
    <<"pending", "script", "image", "voice", "video", "publish", "done">>

PIPELINE_STAGES ==
    {"pending", "script", "image", "voice", "video", "publish", "done", "failed"}

\* STAGE_HANDLERS.get(stage): the handler class bound to a stage, or "None"
STAGE_HANDLERS(stage) == IF stage = "script" THEN "ScriptGenerator" ELSE "None"

\* PIPELINE_ORDER.index(stage), 0-based as in the code; -1 when absent
RECURSIVE IndexFrom(_, _)
IndexFrom(stage, i) ==
    IF i > Len(PIPELINE_ORDER) THEN -1
    ELSE IF PIPELINE_ORDER[i] = stage THEN i - 1
    ELSE IndexFrom(stage, i + 1)

OrderIndex(stage) == IndexFrom(stage, 1)

\* mutant: the membership test of advance_pipeline dropped
InOrderAlways(stage) == TRUE

\* current in PIPELINE_ORDER
InOrder(stage) == OrderIndex(stage) >= 0

\* $3 / $15 per million tokens, in millionths of a dollar per token
INPUT_COST_PER_TOKEN == 3
OUTPUT_COST_PER_TOKEN == 15

\* mutant: the two rates applied to the wrong token counts
calculate_cost_rates_swapped(input_tokens, output_tokens) ==
    input_tokens * OUTPUT_COST_PER_TOKEN + output_tokens * INPUT_COST_PER_TOKEN

calculate_cost(input_tokens, output_tokens) ==
    input_tokens * INPUT_COST_PER_TOKEN + output_tokens * OUTPUT_COST_PER_TOKEN

\* what the text-generation endpoint can answer to one call
InputTokens == {0, 150}
OutputTokens == {500}

Responses ==
    [kind : {"ok"}, text : {"generated"}, input_tokens : InputTokens,
     output_tokens : OutputTokens]
    \cup [kind : {"http_error"}, code : {401, 500}]
    \cup [kind : {"transport_error"}]
    \cup [kind : {"bad_json"}]         \* 2xx, body is not JSON
    \cup [kind : {"missing_fields"}]   \* 2xx, JSON object without content/usage

\* config passed to advance: with or without anthropic_api_key
Configs == [has_key : BOOLEAN]

ErrNoKey == "anthropic_api_key not set"
ErrNetwork == "network error"
ErrHttp(code) == IF code = 401 THEN "Claude API error: 401"
                 ELSE "Claude API error: 500"

StageFailure(msg) ==
    [raised |-> FALSE, success |-> FALSE, next_stage |-> "failed",
     has_script |-> FALSE, script |-> "", error |-> msg, cost_usd |-> 0,
     called_api |-> msg # ErrNoKey]

\* mutant: the handler names a stage two steps ahead
StageSuccessSkipsImage(text, input_tokens, output_tokens) ==
    [raised |-> FALSE, success |-> TRUE, next_stage |-> "voice",
     has_script |-> TRUE, script |-> text, error |-> "",
     cost_usd |-> calculate_cost(input_tokens, output_tokens),
     called_api |-> TRUE]

StageSuccess(text, input_tokens, output_tokens) ==
    [raised |-> FALSE, success |-> TRUE, next_stage |-> "image",
     has_script |-> TRUE, script |-> text, error |-> "",
     cost_usd |-> calculate_cost(input_tokens, output_tokens),
     called_api |-> TRUE]

\* an exception that leaves ScriptGenerator.execute (no except clause matches)
StageRaised ==
    [raised |-> TRUE, success |-> FALSE, next_stage |-> "", has_script |-> FALSE,
     script |-> "", error |-> "", cost_usd |-> 0, called_api |-> TRUE]

\* ScriptGenerator.execute(content, config) given the endpoint's answer
ScriptGeneratorExecute(config, resp) ==
    IF ~config.has_key THEN StageFailure(ErrNoKey)
    ELSE CASE resp.kind = "http_error" -> StageFailure(ErrHttp(resp.code))
           [] resp.kind = "transport_error" -> StageFailure(ErrNetwork)
           [] resp.kind = "bad_json" -> StageRaised
           [] resp.kind = "missing_fields" -> StageSuccess("", 0, 0)
           [] OTHER -> StageSuccess(resp.text, resp.input_tokens,
                                    resp.output_tokens)

NoStageResult ==
    [raised |-> FALSE, success |-> FALSE, next_stage |-> "", has_script |-> FALSE,
     script |-> "", error |-> "", cost_usd |-> 0, called_api |-> FALSE]

\* mutant: a failed stage resets the accumulated cost
ApplyStageResultResetsCost(c, result) ==
    IF result.success
    THEN [c EXCEPT !.pipeline_stage = result.next_stage,
                   !.cost_usd = c.cost_usd + result.cost_usd,
                   !.script = IF result.has_script THEN result.script
                              ELSE c.script]
    ELSE [c EXCEPT !.pipeline_stage = "failed",
                   !.cost_usd = 0,
                   !.error_message = result.error]

\* mutant: a failed stage does not record the handler's diagnostic
ApplyStageResultDropsError(c, result) ==
    IF result.success
    THEN [c EXCEPT !.pipeline_stage = result.next_stage,
                   !.cost_usd = c.cost_usd + result.cost_usd,
                   !.script = IF result.has_script THEN result.script
                              ELSE c.script]
    ELSE [c EXCEPT !.pipeline_stage = "failed"]

\* the Content row after the handler branch of advance_pipeline
ApplyStageResult(c, result) ==
    IF result.success
    THEN [c EXCEPT !.pipeline_stage = result.next_stage,
                   !.cost_usd = c.cost_usd + result.cost_usd,
                   !.script = IF result.has_script THEN result.script
                              ELSE c.script]
    ELSE [c EXCEPT !.pipeline_stage = "failed",
                   !.error_message = result.error]

\* mutant: a pass-through also clears the stored diagnostic
PassThroughClearsError(c) ==
    [c EXCEPT !.pipeline_stage = PIPELINE_ORDER[OrderIndex(c.pipeline_stage) + 2],
              !.error_message = ""]

\* the Content row after the pass-through branch of advance_pipeline
PassThrough(c) ==
    [c EXCEPT !.pipeline_stage = PIPELINE_ORDER[OrderIndex(c.pipeline_stage) + 2]]

NoCall == [op |-> "none", id |-> 0, handler |-> "None", from_stage |-> "",
           result |-> NoStageResult, found |-> FALSE, has_key |-> FALSE,
           resp_kind |-> "", input_tokens |-> 0, output_tokens |-> 0]

\* ContentCRUD.create_content: a new row at the column defaults
CreateContent(id, script) ==
    /\ contents[id] = NoContent
    /\ contents' = [contents EXCEPT ![id] =
            [pipeline_stage |-> "pending", cost_usd |-> 0, script |-> script,
             error_message |-> ""]]
    /\ pipeCall' = [NoCall EXCEPT !.op = "create", !.id = id, !.found = TRUE]
    /\ UNCHANGED <<updates, mgrVars, busVars>>

\* ContentCRUD.update_content with data = {pipeline_stage: stage}
UpdateContent(id, stage) ==
    /\ updates < MaxUpdates
    /\ contents[id] # NoContent
    /\ contents' = [contents EXCEPT ![id].pipeline_stage = stage]
    /\ updates' = updates + 1
    /\ pipeCall' = [NoCall EXCEPT !.op = "update", !.id = id, !.found = TRUE]
    /\ UNCHANGED <<mgrVars, busVars>>

\* ContentCRUD.advance_pipeline(content_id, config)
AdvancePipeline(id, config, resp) ==
    LET c == contents[id]
        current == c.pipeline_stage
        call == [NoCall EXCEPT !.op = "advance", !.id = id]
    IN  /\ UNCHANGED <<updates, mgrVars, busVars>>
        /\ IF c = NoContent
           THEN /\ pipeCall' = call
                /\ UNCHANGED contents
           ELSE IF ~InOrder(current)
           THEN /\ pipeCall' = [call EXCEPT !.found = TRUE,
                                            !.from_stage = current]
                /\ UNCHANGED contents
           ELSE IF OrderIndex(current) >= Len(PIPELINE_ORDER) - 1
           THEN /\ pipeCall' = [call EXCEPT !.found = TRUE,
                                            !.from_stage = current]
                /\ UNCHANGED contents
           ELSE IF STAGE_HANDLERS(current) # "None"
           THEN LET result == ScriptGeneratorExecute(config, resp)
                IN  /\ pipeCall' = [call EXCEPT !.found = TRUE,
                                        !.from_stage = current,
                                        !.handler = STAGE_HANDLERS(current),
                                        !.result = result,
                                        !.has_key = config.has_key,
                                        !.resp_kind = IF config.has_key
                                                      THEN resp.kind ELSE "",
                                        !.input_tokens =
                                            IF config.has_key /\ resp.kind = "ok"
                                            THEN resp.input_tokens ELSE 0,
                                        !.output_tokens =
                                            IF config.has_key /\ resp.kind = "ok"
                                            THEN resp.output_tokens ELSE 0]
                    /\ IF result.raised
                       THEN UNCHANGED contents
                       ELSE contents' = [contents EXCEPT
                                ![id] = ApplyStageResult(c, result)]
           ELSE /\ pipeCall' = [call EXCEPT !.found = TRUE,
                                            !.from_stage = current]
                /\ contents' = [contents EXCEPT ![id] = PassThrough(c)]

\* the config the advance route hands to advance_pipeline: the route passes
\* none, and advance_pipeline runs the handler with "config or {}"
RestConfig == [has_key |-> FALSE]

\* a field a PATCH request leaves out
Unset == "unset"

\* ContentUpdate bodies: any of pipeline_stage, script and error_message set
\* or left out
Patches ==
    [pipeline_stage : PIPELINE_STAGES \cup {Unset}, script : {Unset, "edited"},
     error_message : {Unset, "", "noted"}]

\* PATCH /content/{id}: ContentCRUD.update_content sets every field the
\* request carries
PatchContent(id, data) ==
    /\ updates < MaxUpdates
    /\ contents[id] # NoContent
    /\ contents' = [contents EXCEPT
            ![id].pipeline_stage = IF data.pipeline_stage = Unset THEN @
                                   ELSE data.pipeline_stage,
            ![id].script = IF data.script = Unset THEN @ ELSE data.script,
            ![id].error_message = IF data.error_message = Unset THEN @
                                  ELSE data.error_message]
    /\ updates' = updates + 1
    /\ pipeCall' = [NoCall EXCEPT !.op = "update", !.id = id, !.found = TRUE]
    /\ UNCHANGED <<mgrVars, busVars>>

\* POST /content/{id}/advance
RestAdvance(id) ==
    \E resp \in Responses : AdvancePipeline(id, RestConfig, resp)

InitPipeline ==
    /\ contents = [id \in ContentIds |-> NoContent]
    /\ pipeCall = NoCall
    /\ updates = 0

NextPipeline ==
    \/ \E id \in ContentIds, script \in {"", "manual"} : CreateContent(id, script)
    \/ \E id \in ContentIds, stage \in PIPELINE_STAGES : UpdateContent(id, stage)
    \/ \E id \in ContentIds, config \in Configs, resp \in Responses :
            AdvancePipeline(id, config, resp)

NextRest ==
    \/ \E id \in ContentIds, script \in {"", "manual"} : CreateContent(id, script)
    \/ \E id \in ContentIds, data \in Patches : PatchContent(id, data)
    \/ \E id \in ContentIds : RestAdvance(id)

(***************************************************************************)
(* Plugin manager and orchestrator                                         *)
(*                                                                         *)
(* A caller is suspended only where the code awaits the plugin             *)
(* (initialize, execute, shutdown); everything between two such points is  *)
(* one step.  The only subscription on the manager's bus that is modelled  *)
(* here is one to "plugin.registered": when it is present, register is     *)
(* suspended in publish until the handler has run.  The other publishes    *)
(* find no subscriber, record the event and return without yielding;       *)
(* dispatch to handlers is the subject of the event bus section.           *)
(***************************************************************************)

\* bounds of the manager model: calls made when the orchestrator takes part,
\* steps of one workflow, calls made on the manager alone
MaxCalls == 2
MaxSteps == 3
MaxRegistryCalls == 3

\* two callers, enough for two calls to overlap
Tasks == {"t1", "t2"}

None == "None"

\* three plugin objects, two of them carrying the same name
PluginObjs == {"alpha#1", "alpha#2", "beta#1"}

Names == {"alpha", "beta"}

\* the plugin objects a text is routed to: "Gamma#1" has a capital in its
\* name and in its one capability, "delta#1" declares no capability
RoutedObjs == {"alpha#1", "beta#1", "Gamma#1", "delta#1"}

NameOf(p) ==
    CASE p = "beta#1" -> "beta"
      [] p = "Gamma#1" -> "Gamma"
      [] p = "delta#1" -> "delta"
      [] OTHER -> "alpha"

RoutedNames == {NameOf(p) : p \in RoutedObjs}

Capabilities(p) ==
    CASE NameOf(p) = "alpha" -> <<"generate", "report">>
      [] NameOf(p) = "Gamma" -> <<"Generate-Report">>
      [] NameOf(p) = "delta" -> <<>>
      [] OTHER -> <<"report">>

Commands == {"generate", "report"}

\* PluginStatus
REGISTERED == "registered"
INITIALIZED == "initialized"
RUNNING == "running"
ERROR == "error"
SHUTDOWN == "shutdown"
Absent == "absent"        \* no key in _statuses

Range(seq) == {seq[i] : i \in 1..Len(seq)}

\* dict operations on _plugins (insertion ordered)
Has(ps, name) == \E i \in 1..Len(ps) : ps[i].name = name

Get(ps, name) ==
    IF Has(ps, name)
    THEN ps[CHOOSE i \in 1..Len(ps) : ps[i].name = name].obj
    ELSE None

Put(ps, name, p) ==
    IF Has(ps, name)
    THEN [i \in 1..Len(ps) |->
            IF ps[i].name = name THEN [name |-> name, obj |-> p] ELSE ps[i]]
    ELSE Append(ps, [name |-> name, obj |-> p])

Del(ps, name) == SelectSeq(ps, LAMBDA e : e.name # name)

\* PluginManager.list_plugins: name and capabilities, in insertion order
list_plugins(ps) ==
    [i \in 1..Len(ps) |->
        [name |-> ps[i].name, capabilities |-> Capabilities(ps[i].obj)]]

\* bound of the routing model: words in one input text
MaxWords == 2

\* the words an input text is made of
Words == {"alpha", "beta", "gamma", "generate", "Reports", "x"}

\* a string as the sequence of its characters
Spell(w) ==
    CASE w = "alpha" -> <<"a", "l", "p", "h", "a">>
      [] w = "beta" -> <<"b", "e", "t", "a">>
      [] w = "gamma" -> <<"g", "a", "m", "m", "a">>
      [] w = "Gamma" -> <<"G", "a", "m", "m", "a">>
      [] w = "delta" -> <<"d", "e", "l", "t", "a">>
      [] w = "generate" -> <<"g", "e", "n", "e", "r", "a", "t", "e">>
      [] w = "report" -> <<"r", "e", "p", "o", "r", "t">>
      [] w = "Reports" -> <<"R", "e", "p", "o", "r", "t", "s">>
      [] w = "Generate-Report" ->
            <<"G", "e", "n", "e", "r", "a", "t", "e", "-",
              "R", "e", "p", "o", "r", "t">>
      [] w = "x" -> <<"x">>

\* an input text: its words with one blank between them
RECURSIVE TextChars(_)
TextChars(words) ==
    IF words = <<>> THEN <<>>
    ELSE IF Len(words) = 1 THEN Spell(words[1])
    ELSE Spell(words[1]) \o <<" ">> \o TextChars(Tail(words))

Texts == UNION {[1..k -> Words] : k \in 0..MaxWords}

\* str.lower
LowerChar(c) ==
    CASE c = "G" -> "g"
      [] c = "R" -> "r"
      [] OTHER -> c

Lower(str) == [i \in 1..Len(str) |-> LowerChar(str[i])]

\* str.replace(a, b) for single characters
Replace(str, a, b) == [i \in 1..Len(str) |-> IF str[i] = a THEN b ELSE str[i]]

\* a in b, for strings
Occurs(a, b) ==
    \E i \in 0..(Len(b) - Len(a)) : SubSeq(b, i + 1, i + Len(a)) = a

\* str.split(): the maximal runs of characters that are not blanks
RECURSIVE Split(_)
Split(str) ==
    IF str = <<>> THEN <<>>
    ELSE IF str[1] = " " THEN Split(Tail(str))
    ELSE LET blanks == {i \in 1..Len(str) : str[i] = " "}
             end == IF blanks = {} THEN Len(str) + 1
                    ELSE CHOOSE i \in blanks : \A j \in blanks : i <= j
         IN  <<SubSeq(str, 1, end - 1)>> \o Split(SubSeq(str, end + 1, Len(str)))

\* cap.lower().replace("-", " ").replace("_", " ").split()
cap_words(cap) == Split(Replace(Replace(Lower(Spell(cap)), "-", " "), "_", " "))

\* the inner loop of _parse_with_keywords: one point per fragment of the
\* capability that occurs in the lower-cased text
Score(cap, text_lower) ==
    LET words == cap_words(cap)
    IN  Cardinality({i \in 1..Len(words) : Occurs(words[i], text_lower)})

\* None: _parse_command resolved nothing
Unresolved == [plugin |-> "", command |-> "", payload |-> ""]

\* a resolved (plugin, command, payload); the payload "text" is
\* {"text": text}, "given" the payload of the model's answer, "empty" {}
Resolved(plugin, command, payload) ==
    [plugin |-> plugin, command |-> command, payload |-> payload]

\* best_match = None, best_score = 0
NoBest == [plugin |-> "", command |-> "", score |-> 0]

\* a replacement that also takes an equal score
BetterOrEqual(score, best_score) == score >= best_score

\* if score > best_score
Better(score, best_score) == score > best_score

\* for cap in p.capabilities: best_match and best_score after the
\* capabilities from the k-th on of plugin p have been scored
RECURSIVE ScoreCapabilities(_, _, _, _)
ScoreCapabilities(p, k, text_lower, best) ==
    IF k > Len(p.capabilities) THEN best
    ELSE LET cap == p.capabilities[k]
             score == Score(cap, text_lower)
         IN  ScoreCapabilities(p, k + 1, text_lower,
                IF Better(score, best.score)
                THEN [plugin |-> p.name, command |-> cap, score |-> score]
                ELSE best)

\* the capability a name match returns
LastCapability(caps) == caps[Len(caps)]

\* for cap in p.capabilities: return (p.name, cap, ...)
FirstCapability(caps) == caps[1]

\* for p in plugins: the plugins from the k-th on
RECURSIVE ScanPlugins(_, _, _, _)
ScanPlugins(infos, k, text_lower, best) ==
    IF k > Len(infos)
    THEN (IF best.score > 0
          THEN Resolved(best.plugin, best.command, "text")
          ELSE Unresolved)
    ELSE LET p == infos[k]
         IN  IF Occurs(Lower(Spell(p.name)), text_lower) /\ p.capabilities # <<>>
             THEN Resolved(p.name, FirstCapability(p.capabilities), "text")
             ELSE ScanPlugins(infos, k + 1, text_lower,
                              ScoreCapabilities(p, 1, text_lower, best))

\* Orchestrator._parse_with_keywords(text)
parse_with_keywords(ps, text) ==
    ScanPlugins(list_plugins(ps), 1, Lower(TextChars(text)), NoBest)

\* the orchestrator has no client: keyword routing
NoClient == [failure |-> FALSE, content |-> "no client"]

\* what the model's reply consists of
Contents ==
    {"null", " null\n",
     "{\"plugin\": \"beta\", \"command\": \"report\", \"payload\": {\"n\": 1}}",
     "{\"plugin\": \"ghost\", \"command\": \"generate\"}",
     "{\"command\": \"report\"}",
     "[]",
     "no match"}

\* what messages.create does: it raises, or it returns a reply
Answers ==
    {[failure |-> TRUE, content |-> ""]}
        \cup {[failure |-> FALSE, content |-> c] : c \in Contents}

\* str.strip
strip(content) == IF content = " null\n" THEN "null" ELSE content

\* json.loads: the kind of value, and for an object its keys
json_loads(content) ==
    CASE content =
           "{\"plugin\": \"beta\", \"command\": \"report\", \"payload\": {\"n\": 1}}" ->
             [kind |-> "object", keys |-> {"plugin", "command", "payload"},
              plugin |-> "beta", command |-> "report"]
      [] content = "{\"plugin\": \"ghost\", \"command\": \"generate\"}" ->
             [kind |-> "object", keys |-> {"plugin", "command"},
              plugin |-> "ghost", command |-> "generate"]
      [] content = "{\"command\": \"report\"}" ->
             [kind |-> "object", keys |-> {"command"},
              plugin |-> "", command |-> "report"]
      [] content = "[]" ->
             [kind |-> "list", keys |-> {}, plugin |-> "", command |-> ""]
      [] content = "null" ->
             [kind |-> "null", keys |-> {}, plugin |-> "", command |-> ""]
      [] OTHER ->
             [kind |-> "JSONDecodeError", keys |-> {}, plugin |-> "",
              command |-> ""]

\* a parser that treats the reply null like any other reply
AnswerIsNullNever(content) == FALSE

\* if content == "null"
AnswerIsNull(content) == content = "null"

\* Orchestrator._parse_with_ai(text) when the client answers with answer
parse_with_ai(ps, text, answer) ==
    IF list_plugins(ps) = <<>> THEN Unresolved
    ELSE IF answer.failure THEN parse_with_keywords(ps, text)
    ELSE LET content == strip(answer.content)
             parsed == json_loads(content)
         IN  IF AnswerIsNull(content) THEN Unresolved
             ELSE IF parsed.kind = "object"
                        /\ {"plugin", "command"} \subseteq parsed.keys
             THEN Resolved(parsed.plugin, parsed.command,
                           IF "payload" \in parsed.keys THEN "given"
                           ELSE "empty")
             ELSE parse_with_keywords(ps, text)

\* Orchestrator._parse_command(text)
parse_command(ps, text, answer) ==
    IF answer = NoClient THEN parse_with_keywords(ps, text)
    ELSE parse_with_ai(ps, text, answer)

\* EventBus._max_history
MAX_HISTORY == 100

Event(type, plugin, command, error, by) ==
    [type |-> type, plugin |-> plugin, command |-> command, error |-> error,
     by |-> by]

\* a history that drops the newest event when it is full
RecordKeepsOldest(hist, ev) ==
    LET h == Append(hist, ev)
    IN  IF Len(h) > MAX_HISTORY THEN SubSeq(h, 1, MAX_HISTORY) ELSE h

\* a history that records nothing
RecordNothing(hist, ev) == hist

\* EventBus._record
Record(hist, ev) ==
    LET h == Append(hist, ev)
    IN  IF Len(h) > MAX_HISTORY
        THEN SubSeq(h, Len(h) - MAX_HISTORY + 1, Len(h))
        ELSE h

\* a caller that is not inside any call
Idle ==
    [op |-> "none", pc |-> "idle", obj |-> None, name |-> "", command |-> "",
     steps |-> <<>>, results |-> <<>>, error |-> "", info |-> "",
     inner |-> "", hist0 |-> 0, call |-> 0, status0 |-> "",
     seen |-> [ran |-> FALSE, stored |-> FALSE, status |-> ""],
     text |-> <<>>, answer |-> NoClient, parsed |-> Unresolved,
     scanned |-> <<>>]

\* the callers are interchangeable: the first call is t1's
CanCall(t) ==
    /\ task[t].pc \in {"idle", "done"}
    /\ calls < MaxRegistryCalls
    /\ (calls = 0 => t = "t1")

\* the frame of the call being entered; hist0 and call only identify the
\* call and the events it publishes, status0 is the status execute found
NewFrame(op) ==
    [Idle EXCEPT !.op = op, !.hist0 = Len(history), !.call = calls + 1]

\* mutant: register does not look the name up
RegisterDuplicateNever(ps, name) == FALSE

\* PluginManager.register: name in self._plugins
RegisterDuplicate(ps, name) == Has(ps, name)

\* PluginManager.register up to the await of plugin.initialize
Register(t, p) ==
    /\ CanCall(t)
    /\ calls' = calls + 1
    /\ LET f == [NewFrame("register") EXCEPT !.obj = p, !.name = NameOf(p)]
       IN  task' = [task EXCEPT ![t] =
                IF RegisterDuplicate(plugins, NameOf(p))
                THEN [f EXCEPT !.pc = "done", !.error = "DuplicateName"]
                ELSE [f EXCEPT !.pc = "initialize"]]
    /\ UNCHANGED <<plugins, statuses, history, pipeVars, busVars>>

\* mutant: the plugin is not yet stored when the event is published
RegisterStoresNothing(ps, name, p) == ps

\* PluginManager.register: self._plugins[name] = plugin
RegisterStores(ps, name, p) == Put(ps, name, p)

\* PluginManager.register from the return of plugin.initialize up to the
\* return, or up to the gather of publish when a handler is subscribed to
\* "plugin.registered" (watched)
RegisterInitialized(t, ok, watched) ==
    /\ task[t].op = "register"
    /\ task[t].pc = "initialize"
    /\ LET f == task[t]
       IN  IF ok
           THEN /\ plugins' = RegisterStores(plugins, f.name, f.obj)
                /\ statuses' = [statuses EXCEPT ![f.name] = INITIALIZED]
                /\ history' = Record(history,
                        Event("plugin.registered", f.name, "", "", t))
                /\ task' = [task EXCEPT ![t] =
                        IF watched
                        THEN [f EXCEPT !.pc = "notify", !.inner = "ok"]
                        ELSE [f EXCEPT !.pc = "done", !.inner = "ok",
                                       !.info = REGISTERED]]
           ELSE /\ statuses' = [statuses EXCEPT ![f.name] = ERROR]
                /\ task' = [task EXCEPT ![t] =
                        [f EXCEPT !.pc = "done", !.inner = "raised",
                                  !.error = "InitializationFailure"]]
                /\ UNCHANGED <<plugins, history>>
    /\ UNCHANGED <<calls, pipeVars, busVars>>

\* the handler subscribed to "plugin.registered" runs and looks the plugin up
\* (manager.get, list_plugins); publish and then register return
RegisteredHandlerRuns(t) ==
    /\ task[t].op = "register"
    /\ task[t].pc = "notify"
    /\ task' = [task EXCEPT ![t] =
            [@ EXCEPT !.pc = "done", !.info = REGISTERED,
                      !.seen = [ran |-> TRUE,
                                stored |-> Get(plugins, task[t].name) = task[t].obj,
                                status |-> statuses[task[t].name]]]]
    /\ UNCHANGED <<plugins, statuses, history, calls, pipeVars, busVars>>

\* PluginManager.unregister up to the await of plugin.shutdown
Unregister(t, name) ==
    /\ CanCall(t)
    /\ calls' = calls + 1
    /\ LET f == [NewFrame("unregister") EXCEPT !.name = name,
                                              !.obj = Get(plugins, name)]
       IN  task' = [task EXCEPT ![t] =
                IF Get(plugins, name) = None
                THEN [f EXCEPT !.pc = "done", !.error = "NotFound"]
                ELSE [f EXCEPT !.pc = "shutdown"]]
    /\ UNCHANGED <<plugins, statuses, history, pipeVars, busVars>>

\* an unregister that leaves the plugin in the registry
UnregisteredKept(ps, name) == ps

\* PluginManager.unregister: del self._plugins[name]
Unregistered(ps, name) == Del(ps, name)

\* PluginManager.unregister from the return of plugin.shutdown
UnregisterShutdown(t, raised) ==
    /\ task[t].op = "unregister"
    /\ task[t].pc = "shutdown"
    /\ LET f == [task[t] EXCEPT !.pc = "done",
                                !.inner = IF raised THEN "raised" ELSE "ok"]
       IN  IF ~Has(plugins, f.name)
           THEN \* del self._plugins[name] on a missing key
                /\ task' = [task EXCEPT ![t] = [f EXCEPT !.error = "KeyError"]]
                /\ UNCHANGED <<plugins, statuses, history>>
           ELSE /\ plugins' = Unregistered(plugins, f.name)
                /\ statuses' = [statuses EXCEPT ![f.name] = SHUTDOWN]
                /\ history' = Record(history,
                        Event("plugin.unregistered", f.name, "", "", t))
                /\ task' = [task EXCEPT ![t] = f]
    /\ UNCHANGED <<calls, pipeVars, busVars>>

\* mutant: the capability whitelist is not enforced
ExecuteCheckNoWhitelist(ps, name, command) ==
    IF Get(ps, name) = None THEN "NotFound" ELSE "ok"

\* PluginManager.execute: the two checks made before the plugin is invoked
ExecuteCheck(ps, name, command) ==
    IF Get(ps, name) = None THEN "NotFound"
    ELSE IF command \notin Range(Capabilities(Get(ps, name)))
    THEN "UnsupportedCommand"
    ELSE "ok"

\* mutant: a plugin that failed once is never marked healthy again
StatusAfterExecuteAlwaysError(ok) == ERROR

\* the status PluginManager.execute writes when plugin.execute returns
StatusAfterExecute(ok) == IF ok THEN INITIALIZED ELSE ERROR

\* PluginManager.execute (called directly) up to the await of plugin.execute
Execute(t, name, command) ==
    /\ CanCall(t)
    /\ calls' = calls + 1
    /\ LET f == [NewFrame("execute") EXCEPT !.name = name, !.command = command,
                                           !.obj = Get(plugins, name),
                                           !.status0 = statuses[name]]
           chk == ExecuteCheck(plugins, name, command)
       IN  IF chk # "ok"
           THEN /\ task' = [task EXCEPT ![t] =
                        [f EXCEPT !.pc = "done", !.error = chk]]
                /\ UNCHANGED statuses
           ELSE /\ task' = [task EXCEPT ![t] = [f EXCEPT !.pc = "execute"]]
                /\ statuses' = [statuses EXCEPT ![name] = RUNNING]
    /\ UNCHANGED <<plugins, history, pipeVars, busVars>>

\* PluginManager.execute (called directly) from the return of plugin.execute
ExecuteReturned(t, ok) ==
    /\ task[t].op = "execute"
    /\ task[t].pc = "execute"
    /\ statuses' = [statuses EXCEPT ![task[t].name] = StatusAfterExecute(ok)]
    /\ task' = [task EXCEPT ![t] =
            [@ EXCEPT !.pc = "done",
                      !.inner = IF ok THEN "ok" ELSE "raised",
                      !.error = IF ok THEN "" ELSE "ExecutionFailure"]]
    /\ UNCHANGED <<plugins, history, calls, pipeVars, busVars>>

\* OrchestratorResult
Success(plugin, command) ==
    [success |-> TRUE, plugin |-> plugin, command |-> command,
     result |-> "value", error |-> None]

Failure(plugin, command, err) ==
    [success |-> FALSE, plugin |-> plugin, command |-> command,
     result |-> "empty", error |-> err]

\* mutant: the orchestrator only catches failures of the plugin itself
OrchCatchesExecutionOnly(err) == err = "ExecutionFailure"

\* Orchestrator.execute: except Exception
OrchCatches(err) == TRUE

\* mutant: the workflow loop has no break
WorkflowNeverBreaks(result) == FALSE

\* Orchestrator.execute_workflow: if not result.success: break
WorkflowBreaks(result) == ~result.success

WorkflowFinished(f) ==
    \/ Len(f.results) >= Len(f.steps)
    \/ f.error # ""
    \/ (f.results # <<>> /\ WorkflowBreaks(f.results[Len(f.results)]))

\* The orchestrator runs from one suspension point to the next without
\* yielding: m is the manager state [statuses, history] it reads and writes.
RECURSIVE BeginStep(_, _, _)
RECURSIVE OrchFailed(_, _, _, _)
RECURSIVE Continue(_, _, _)

\* execute_workflow's loop: the next step, or return
Continue(m, f, t) ==
    IF WorkflowFinished(f)
    THEN [statuses |-> m.statuses, history |-> m.history,
          frame |-> [f EXCEPT !.pc = "done"]]
    ELSE BeginStep(m, f, t)

\* mutant: the error event carries a fixed text
ErrorEventMessageFixed(err) == "error"

\* Orchestrator.execute: "error": str(e) in the error event
ErrorEventMessage(err) == err

\* a loop that never moves on from the first step
NextStepFirst(f) == f.steps[1]

\* execute_workflow: for step in steps, one result appended per iteration
NextStep(f) == f.steps[Len(f.results) + 1]

\* Orchestrator.execute: the except branch
OrchFailed(m, f, t, err) ==
    LET step == NextStep(f)
    IN  IF OrchCatches(err)
        THEN Continue(
                [statuses |-> m.statuses,
                 history |-> Record(m.history,
                    Event("orchestrator.execute.error", step.plugin,
                          step.command, ErrorEventMessage(err), t))],
                [f EXCEPT !.results =
                    Append(@, Failure(step.plugin, step.command, err))],
                t)
        ELSE [statuses |-> m.statuses, history |-> m.history,
              frame |-> [f EXCEPT !.pc = "done", !.error = err]]

\* Orchestrator.execute up to the await of plugin.execute
BeginStep(m, f, t) ==
    LET step == NextStep(f)
        h == Record(m.history,
                Event("orchestrator.execute.start", step.plugin,
                      step.command, "", t))
        chk == ExecuteCheck(plugins, step.plugin, step.command)
    IN  IF chk = "ok"
        THEN [statuses |-> [m.statuses EXCEPT ![step.plugin] = RUNNING],
              history |-> h,
              frame |-> [f EXCEPT !.pc = "execute", !.name = step.plugin,
                                  !.command = step.command,
                                  !.obj = Get(plugins, step.plugin)]]
        ELSE OrchFailed([statuses |-> m.statuses, history |-> h], f, t, chk)

\* Orchestrator.execute from the return of plugin.execute
CompleteStep(m, f, t, ok) ==
    LET sts == [m.statuses EXCEPT ![f.name] = StatusAfterExecute(ok)]
        g == [f EXCEPT !.inner = IF ok THEN "ok" ELSE "raised"]
    IN  IF ok
        THEN Continue(
                [statuses |-> sts,
                 history |-> Record(m.history,
                    Event("orchestrator.execute.done", f.name, f.command,
                          "", t))],
                [g EXCEPT !.results = Append(@, Success(f.name, f.command))],
                t)
        ELSE OrchFailed([statuses |-> sts, history |-> m.history], g, t,
                        "ExecutionFailure")

M == [statuses |-> statuses, history |-> history]

StepChoices ==
    {[plugin |-> "alpha", command |-> "generate"],
     [plugin |-> "beta", command |-> "generate"]}

Workflows == UNION {[1..k -> StepChoices] : k \in 0..MaxSteps}

\* Orchestrator.execute(plugin_name, command, payload), entered
OrchExecute(t, name, command) ==
    /\ CanCall(t)
    /\ calls' = calls + 1
    /\ LET f == [NewFrame("orch_execute") EXCEPT
                    !.steps = <<[plugin |-> name, command |-> command]>>]
           out == BeginStep(M, f, t)
       IN  /\ statuses' = out.statuses
           /\ history' = out.history
           /\ task' = [task EXCEPT ![t] = out.frame]
    /\ UNCHANGED <<plugins, pipeVars, busVars>>

\* Orchestrator.execute_workflow(steps), entered
ExecuteWorkflow(t, steps) ==
    /\ CanCall(t)
    /\ calls' = calls + 1
    /\ LET out == Continue(M, [NewFrame("workflow") EXCEPT !.steps = steps], t)
       IN  /\ statuses' = out.statuses
           /\ history' = out.history
           /\ task' = [task EXCEPT ![t] = out.frame]
    /\ UNCHANGED <<plugins, pipeVars, busVars>>

\* plugin.execute returns to Orchestrator.execute (alone or in a workflow)
OrchReturned(t, ok) ==
    /\ task[t].op \in {"orch_execute", "workflow", "route"}
    /\ task[t].pc = "execute"
    /\ LET out == CompleteStep(M, task[t], t, ok)
       IN  /\ statuses' = out.statuses
           /\ history' = out.history
           /\ task' = [task EXCEPT ![t] = out.frame]
    /\ UNCHANGED <<plugins, calls, pipeVars, busVars>>

\* a route that takes whatever the parser returned for a resolution
RouteResolvesAlways(parsed) == TRUE

\* Orchestrator.route: if parsed is None
RouteResolves(parsed) == parsed # Unresolved

\* Orchestrator.route(natural_language) of a caller that has made no call
\* yet, up to its return or to the await of plugin.execute; answer is what
\* the model will reply, or NoClient
Route(t, text, answer) ==
    /\ CanCall(t)
    /\ task[t].op = "none"
    /\ calls' = calls + 1
    /\ \E parsed \in {parse_command(plugins, text, answer)} :
          LET f == [NewFrame("route") EXCEPT
                      !.text = text, !.answer = answer, !.parsed = parsed]
              out == IF RouteResolves(parsed)
                     THEN BeginStep(M,
                            [f EXCEPT !.steps = <<[plugin |-> parsed.plugin,
                                                   command |-> parsed.command]>>],
                            t)
                     ELSE [statuses |-> statuses, history |-> history,
                           frame |-> [f EXCEPT
                              !.pc = "done",
                              !.results = <<Failure("", "", "Unresolvable")>>]]
          IN  /\ statuses' = out.statuses
              /\ history' = out.history
              /\ task' = [task EXCEPT ![t] = out.frame]
    /\ UNCHANGED <<plugins, pipeVars, busVars>>

\* bound of the routing model: plugins in the registry
MaxPlugins == 2

\* the registry after the plugins of a list were registered in its order
RegistryOf(objs) ==
    [i \in 1..Len(objs) |-> [name |-> NameOf(objs[i]), obj |-> objs[i]]]

Registries ==
    {RegistryOf(objs) :
        objs \in {l \in UNION {[1..k -> RoutedObjs] : k \in 0..MaxPlugins} :
                    \A i, j \in 1..Len(l) : i # j => l[i] # l[j]}}

\* a registry whose plugins were registered one after the other
InitRouted ==
    /\ plugins \in Registries
    /\ statuses = [n \in RoutedNames |->
                      IF Has(plugins, n) THEN INITIALIZED ELSE Absent]
    /\ history = [i \in 1..Len(plugins) |->
                      Event("plugin.registered", plugins[i].name, "", "", "t1")]
    /\ task = [t \in Tasks |-> Idle]
    /\ calls = 0

\* one text routed on a registry, by keywords or with the model's help
NextRouting ==
    \/ task["t1"].op = "none" /\
          \E text \in Texts, answer \in {NoClient} \cup Answers :
              Route("t1", text, answer)
    \/ \E ok \in BOOLEAN : OrchReturned("t1", ok)

\* bounds of the discover model: children of the scanned directory, and calls
\* made on the manager
MaxChildren == 2
MaxDiscoverCalls == 2

\* what a child of the scanned directory can be: not a directory, a directory
\* without plugin.py, a module that fails to import, a module whose Plugin
\* attribute is missing or is no NaruuPlugin subclass (bad_export), a Plugin
\* whose constructor raises, or a module whose Plugin() is one of the plugin
\* objects
SkippedKinds == {"not_dir", "no_entry", "bad_export"}
RaisingKinds == {"import_fails", "ctor_fails"}

Children ==
    [kind : SkippedKinds \cup RaisingKinds, obj : {None}]
    \cup [kind : {"plugin"}, obj : PluginObjs]

\* sorted(directory.iterdir()) of a directory; a path that is no directory
\* has no listing
NotADirectory == [is_dir |-> FALSE, children |-> <<>>]

Directories ==
    {NotADirectory}
    \cup [is_dir : {TRUE},
          children : UNION {[1..k -> Children] : k \in 0..MaxChildren}]

\* mutant: an exception raised for a candidate leaves the loop and discover
CandidateFailedAborts(f) ==
    [f EXCEPT !.scanned = Append(@, "failed"), !.pc = "done",
              !.error = "LoadFailure"]

\* PluginManager.discover: except Exception: logger.error(...), and the loop
\* goes on
CandidateFailed(f) == [f EXCEPT !.scanned = Append(@, "failed")]

\* a candidate passed over by one of the continue statements, or found
\* registered already
CandidateSkipped(f) == [f EXCEPT !.scanned = Append(@, "skipped")]

\* PluginManager.discover: the for loop from the child after the scanned ones,
\* on the registry ps, up to the await of the next plugin.initialize (inside
\* self.register) or up to the return
RECURSIVE ScanFrom(_, _)
ScanFrom(f, ps) ==
    LET i == Len(f.scanned) + 1
    IN  IF f.pc = "done" THEN f
        ELSE IF i > Len(f.steps) THEN [f EXCEPT !.pc = "done"]
        ELSE IF f.steps[i].kind \in SkippedKinds
        THEN ScanFrom(CandidateSkipped(f), ps)
        ELSE IF f.steps[i].kind \in RaisingKinds
        THEN ScanFrom(CandidateFailed(f), ps)
        ELSE IF Has(ps, NameOf(f.steps[i].obj))
        THEN ScanFrom(CandidateSkipped(f), ps)
        ELSE [f EXCEPT !.pc = "initialize", !.obj = f.steps[i].obj,
                       !.name = NameOf(f.steps[i].obj)]

\* PluginManager.discover(directory), entered
Discover(t, dir) ==
    /\ CanCall(t)
    /\ calls' = calls + 1
    /\ LET f == [NewFrame("discover") EXCEPT !.steps = dir.children,
                                             !.pc = "scan"]
       IN  task' = [task EXCEPT ![t] =
                IF ~dir.is_dir THEN [f EXCEPT !.pc = "done"]
                ELSE ScanFrom(f, plugins)]
    /\ UNCHANGED <<plugins, statuses, history, pipeVars, busVars>>

\* PluginManager.discover from the return of plugin.initialize inside
\* self.register: register stores the plugin and publishes, or fails and is
\* caught by discover; then the loop goes on.  With a handler subscribed to
\* "plugin.registered" (watched) register is suspended once more in publish.
DiscoverInitialized(t, ok, watched) ==
    /\ task[t].op = "discover"
    /\ task[t].pc = "initialize"
    /\ LET f == task[t]
       IN  IF ok
           THEN /\ plugins' = RegisterStores(plugins, f.name, f.obj)
                /\ statuses' = [statuses EXCEPT ![f.name] = INITIALIZED]
                /\ history' = Record(history,
                        Event("plugin.registered", f.name, "", "", t))
                /\ task' = [task EXCEPT ![t] =
                        IF watched
                        THEN [f EXCEPT !.pc = "notify"]
                        ELSE ScanFrom(
                                [f EXCEPT !.pc = "scan",
                                          !.scanned = Append(@, "registered"),
                                          !.results = Append(@, f.obj)],
                                plugins')]
           ELSE /\ statuses' = [statuses EXCEPT ![f.name] = ERROR]
                /\ task' = [task EXCEPT ![t] =
                        ScanFrom(CandidateFailed([f EXCEPT !.pc = "scan"]),
                                 plugins)]
                /\ UNCHANGED <<plugins, history>>
    /\ UNCHANGED <<calls, pipeVars, busVars>>

\* the handler subscribed to "plugin.registered" has run: publish and
\* register return, discover appends the info and the loop goes on
DiscoverNotified(t) ==
    /\ task[t].op = "discover"
    /\ task[t].pc = "notify"
    /\ task' = [task EXCEPT ![t] =
            ScanFrom([@ EXCEPT !.pc = "scan",
                               !.scanned = Append(@, "registered"),
                               !.results = Append(@, task[t].obj)],
                     plugins)]
    /\ UNCHANGED <<plugins, statuses, history, calls, pipeVars, busVars>>

InitManager ==
    /\ plugins = <<>>
    /\ statuses = [n \in Names |-> Absent]
    /\ history = <<>>
    /\ task = [t \in Tasks |-> Idle]
    /\ calls = 0

\* callers of the manager and of the orchestrator, MaxCalls calls in all
NextManager ==
    \/ calls < MaxCalls /\ \E t \in Tasks, p \in PluginObjs : Register(t, p)
    \/ \E t \in Tasks, ok, watched \in BOOLEAN : RegisterInitialized(t, ok, watched)
    \/ \E t \in Tasks : RegisteredHandlerRuns(t)
    \/ calls < MaxCalls /\ \E t \in Tasks, n \in Names : Unregister(t, n)
    \/ \E t \in Tasks, raised \in BOOLEAN : UnregisterShutdown(t, raised)
    \/ calls < MaxCalls /\ \E t \in Tasks, n \in Names, c \in Commands :
            Execute(t, n, c)
    \/ \E t \in Tasks, ok \in BOOLEAN : ExecuteReturned(t, ok)
    \/ calls < MaxCalls /\ \E t \in Tasks, n \in Names, c \in Commands :
            OrchExecute(t, n, c)
    \/ calls < MaxCalls /\ \E t \in Tasks, steps \in Workflows :
            ExecuteWorkflow(t, steps)
    \/ \E t \in Tasks, ok \in BOOLEAN : OrchReturned(t, ok)

\* callers of the manager alone, MaxRegistryCalls calls in all
NextRegistry ==
    \/ \E t \in Tasks, p \in PluginObjs : Register(t, p)
    \/ \E t \in Tasks, ok, watched \in BOOLEAN : RegisterInitialized(t, ok, watched)
    \/ \E t \in Tasks : RegisteredHandlerRuns(t)
    \/ \E t \in Tasks, n \in Names : Unregister(t, n)
    \/ \E t \in Tasks, raised \in BOOLEAN : UnregisterShutdown(t, raised)
    \/ \E t \in Tasks, n \in Names, c \in Commands : Execute(t, n, c)
    \/ \E t \in Tasks, ok \in BOOLEAN : ExecuteReturned(t, ok)

\* PluginManager.discover, one scan at a time, while its caller or another
\* one registers and unregisters; MaxDiscoverCalls calls in all
NextDiscover ==
    \/ /\ calls < MaxDiscoverCalls
       /\ \A u \in Tasks : task[u].op # "discover"
       /\ \E t \in Tasks, dir \in Directories : Discover(t, dir)
    \/ \E t \in Tasks, ok, watched \in BOOLEAN : DiscoverInitialized(t, ok, watched)
    \/ \E t \in Tasks : DiscoverNotified(t)
    \/ calls < MaxDiscoverCalls /\ \E t \in Tasks, p \in PluginObjs :
            Register(t, p)
    \/ \E t \in Tasks, ok, watched \in BOOLEAN : RegisterInitialized(t, ok, watched)
    \/ \E t \in Tasks : RegisteredHandlerRuns(t)
    \/ calls < MaxDiscoverCalls /\ \E t \in Tasks, n \in Names :
            Unregister(t, n)
    \/ \E t \in Tasks, raised \in BOOLEAN : UnregisterShutdown(t, raised)

(***************************************************************************)
(* Event bus                                                               *)
(***************************************************************************)

\* bound of the bus model
MaxPublishes == 2

\* bound of the history model: more publishes than the history can hold
MaxRecorded == 102

\* the event type handlers subscribe to
EventTypes == {"content.pipeline.advanced"}

\* event types that are published and have no subscriber
HistoryTypes == {"plugin.registered", "orchestrator.execute.start"}

\* limits passed to get_history; its default is 10
Limits == {0, 1, 10, 100, 101}

\* handler functions and what each does when it is awaited
Handlers == {"ok_handler", "failing_handler", "once_handler"}

\* a handler that raises
Raises(h) == h = "failing_handler"

\* a handler that unsubscribes itself while it handles the event
UnsubscribesItself(h) == h = "once_handler"

\* two callers, so that two publish calls can be in flight
Publishers == {"p1", "p2"}

IndexOf(seq, x) == CHOOSE i \in 1..Len(seq) : seq[i] = x

\* list.remove(x): the first occurrence
Remove(seq, x) ==
    LET k == IndexOf(seq, x)
    IN  [i \in 1..(Len(seq) - 1) |-> IF i < k THEN seq[i] ELSE seq[i + 1]]

\* a subscribe without the membership test
SubscribedAgain(hs, type, h) == [hs EXCEPT ![type] = Append(@, h)]

\* EventBus.subscribe: the handler table afterwards
Subscribed(hs, type, h) ==
    IF h \in Range(hs[type]) THEN hs
    ELSE [hs EXCEPT ![type] = Append(@, h)]

\* EventBus.unsubscribe: the handler table afterwards
Unsubscribed(hs, type, h) ==
    IF h \in Range(hs[type]) THEN [hs EXCEPT ![type] = Remove(@, h)]
    ELSE hs

\* self._handlers.get(event_type, []): the list of the table, or an empty
\* list for a type nothing was ever subscribed to
HandlersOf(hs, type) == IF type \in DOMAIN hs THEN hs[type] ELSE <<>>

\* seq[start:] of a Python list: a negative start counts from the end, and
\* an index outside the list is clamped to it
SliceFrom(seq, start) ==
    LET n == Len(seq)
        from == IF start < 0
                THEN (IF n + start < 0 THEN 0 ELSE n + start)
                ELSE (IF start > n THEN n ELSE start)
    IN  SubSeq(seq, from + 1, n)

\* EventBus.get_history: self._history[-limit:]
HistorySlice(hist, limit) == SliceFrom(hist, 0 - limit)

\* a caller of the bus that is not inside any call
\* the handlers one publish creates a coroutine for: [... for h in handlers]
DispatchedFirstOnly(hs) == <<hs[1]>>

Dispatched(hs) == hs

NotPublishing ==
    [op |-> "none", pc |-> "idle", type |-> "", coros |-> <<>>,
     outcomes |-> <<>>, results |-> <<>>, raised |-> FALSE, limit |-> 0,
     got |-> <<>>]

\* EventBus.subscribe(event_type, handler)
Subscribe(type, h) ==
    /\ handlers' = Subscribed(handlers, type, h)
    /\ UNCHANGED <<history, pub, publishes, pipeVars, registryVars>>

\* EventBus.unsubscribe(event_type, handler)
Unsubscribe(type, h) ==
    /\ handlers' = Unsubscribed(handlers, type, h)
    /\ UNCHANGED <<history, pub, publishes, pipeVars, registryVars>>

\* EventBus.publish up to the await of asyncio.gather: the event is recorded
\* and one coroutine is created per handler in the list at that moment
Publish(q, type) ==
    /\ pub[q].pc \in {"idle", "done"}
    /\ (q = "p2" => pub["p1"].pc = "gather")   \* p2 only overlaps p1
    /\ publishes' = publishes + 1
    /\ history' = Record(history, Event(type, "", "", "", q))
    /\ pub' = [pub EXCEPT ![q] =
            IF HandlersOf(handlers, type) = <<>>
            THEN [NotPublishing EXCEPT
                    !.op = "publish", !.pc = "done", !.type = type]
            ELSE [NotPublishing EXCEPT
                    !.op = "publish", !.pc = "gather", !.type = type,
                    !.coros = Dispatched(HandlersOf(handlers, type)),
                    !.outcomes = [i \in 1..Len(HandlersOf(handlers, type))
                                    |-> "pending"]]]
    /\ UNCHANGED <<handlers, pipeVars, registryVars>>

\* EventBus.get_history(limit): synchronous, it changes nothing in the bus
GetHistory(q, limit) ==
    /\ pub[q].pc \in {"idle", "done"}
    /\ pub' = [pub EXCEPT ![q] =
            [NotPublishing EXCEPT
                !.op = "get_history", !.pc = "done", !.limit = limit,
                !.got = HistorySlice(history, limit)]]
    /\ UNCHANGED <<handlers, history, publishes, pipeVars, registryVars>>

\* one coroutine of a gather runs its handler to completion
HandlerRuns(q, i) ==
    /\ pub[q].pc = "gather"
    /\ i \in 1..Len(pub[q].coros)
    /\ pub[q].outcomes[i] = "pending"
    /\ LET h == pub[q].coros[i]
       IN  /\ handlers' = IF UnsubscribesItself(h)
                          THEN Unsubscribed(handlers, pub[q].type, h)
                          ELSE handlers
           /\ pub' = [pub EXCEPT ![q].outcomes[i] =
                        IF Raises(h) THEN "error" ELSE "ok"]
    /\ UNCHANGED <<history, publishes, pipeVars, registryVars>>

\* zip(handlers, outcomes, strict=False): handlers is the list of the table
\* as it is now, outcomes is in coroutine order
ZipResults(live, outcomes) ==
    LET n == IF Len(live) < Len(outcomes) THEN Len(live) ELSE Len(outcomes)
    IN  [i \in 1..n |-> [handler |-> live[i], status |-> outcomes[i]]]

\* EventBus.publish from the return of asyncio.gather
PublishReturns(q) ==
    /\ pub[q].pc = "gather"
    /\ \A i \in 1..Len(pub[q].outcomes) : pub[q].outcomes[i] # "pending"
    /\ pub' = [pub EXCEPT ![q].pc = "done",
                          ![q].results =
                              ZipResults(HandlersOf(handlers, pub[q].type),
                                         pub[q].outcomes)]
    /\ UNCHANGED <<handlers, history, publishes, pipeVars, registryVars>>

InitBus ==
    /\ handlers = [ty \in EventTypes |-> <<>>]
    /\ pub = [q \in Publishers |-> NotPublishing]
    /\ publishes = 0

NextBus ==
    \/ \E ty \in EventTypes, h \in Handlers : Subscribe(ty, h)
    \/ \E ty \in EventTypes, h \in Handlers : Unsubscribe(ty, h)
    \/ publishes < MaxPublishes /\
          \E q \in Publishers, ty \in EventTypes : Publish(q, ty)
    \/ \E q \in Publishers, i \in 1..Cardinality(Handlers) : HandlerRuns(q, i)
    \/ \E q \in Publishers : PublishReturns(q)

\* the type of the n-th publish while the history is far from full; the
\* last publishes before it fills, and all later ones, are of any type
ScheduledType(n) ==
    IF n % 3 = 2 THEN "orchestrator.execute.start" ELSE "plugin.registered"

FreeFrom == MAX_HISTORY - 3

\* a bus without subscribers that is published to more often than the
\* history can hold, and whose history is read
NextHistory ==
    \/ publishes < MaxRecorded /\
          \E ty \in HistoryTypes :
              /\ (publishes < FreeFrom => ty = ScheduledType(publishes))
              /\ Publish("p1", ty)
    \/ \E limit \in Limits : GetHistory("p1", limit)

Init == InitPipeline /\ InitManager /\ InitBus

SpecPipeline == Init /\ [][NextPipeline]_vars

SpecManager == Init /\ [][NextManager]_vars

SpecRegistry == Init /\ [][NextRegistry]_vars

SpecBus == Init /\ [][NextBus]_vars

SpecHistory == Init /\ [][NextHistory]_vars

InitRouting == InitPipeline /\ InitRouted /\ InitBus

SpecRouting == InitRouting /\ [][NextRouting]_vars

SpecDiscover == Init /\ [][NextDiscover]_vars

\* the REST surface of the content plugin: POST /content, PATCH
\* /content/{id} and POST /content/{id}/advance.  A client that keeps
\* calling advance on a record is answered every time.
SpecRest ==
    Init /\ [][NextRest]_vars /\ \A id \in ContentIds : WF_vars(RestAdvance(id))

(***************************************************************************)
(* Properties of the plugin manager and the orchestrator                   *)
(***************************************************************************)

\* this step enters a new call of operation op in task t
Enters(t, op) ==
    /\ calls' = calls + 1
    /\ task'[t].call = calls'
    /\ task'[t].op = op

DuplicateRegisterRejected ==
    \A t \in Tasks, p \in PluginObjs :
        (Enters(t, "register") /\ task'[t].obj = p /\ Has(plugins, NameOf(p))) =>
            /\ task'[t].pc = "done"
            /\ task'[t].error = "DuplicateName"
            /\ task'[t].inner = ""
            /\ plugins' = plugins
            /\ statuses' = statuses
            /\ history' = history

\* C1: register of a plugin whose name is already in the registry fails with
\* DuplicateName without invoking initialize, publishes no event and leaves
\* the registry and the status map as they were.
C1_DuplicateRegister == [][DuplicateRegisterRejected]_vars

\* a second object with a registered name was rejected; the first is kept
C1_Witness ==
    \E t \in Tasks :
        /\ task[t].op = "register"
        /\ task[t].pc = "done"
        /\ task[t].error = "DuplicateName"
        /\ Has(plugins, task[t].name)
        /\ Get(plugins, task[t].name) # task[t].obj
        /\ statuses[task[t].name] = INITIALIZED

Unsupported(name, command) ==
    /\ Has(plugins, name)
    /\ command \notin Range(Capabilities(Get(plugins, name)))

UnsupportedCommandRejected ==
    \A t \in Tasks, n \in Names, c \in Commands :
        /\ (Enters(t, "execute") /\ task'[t].name = n /\ task'[t].command = c
                /\ Unsupported(n, c)) =>
            /\ task'[t].pc = "done"
            /\ task'[t].error = "UnsupportedCommand"
            /\ task'[t].inner = ""
            /\ plugins' = plugins
            /\ statuses' = statuses
            /\ history' = history
        /\ (Enters(t, "orch_execute")
                /\ task'[t].steps = <<[plugin |-> n, command |-> c]>>
                /\ Unsupported(n, c)) =>
            /\ task'[t].pc = "done"
            /\ task'[t].inner = ""
            /\ task'[t].results = <<Failure(n, c, "UnsupportedCommand")>>
            /\ plugins' = plugins
            /\ statuses' = statuses

\* C2: Manager.execute of a command that a registered plugin does not declare
\* fails with UnsupportedCommand, does not invoke the plugin, and leaves the
\* plugin's status and the registry unchanged.
C2_UnsupportedCommand == [][UnsupportedCommandRejected]_vars

\* beta is registered and was asked for "generate", which it does not declare
C2_Witness ==
    \E t \in Tasks :
        /\ task[t].op = "execute"
        /\ task[t].pc = "done"
        /\ task[t].error = "UnsupportedCommand"
        /\ Has(plugins, task[t].name)
        /\ statuses[task[t].name] = INITIALIZED

\* the events task t has published since it entered its current call
OwnEvents(t) ==
    SelectSeq(SubSeq(history, task[t].hist0 + 1, Len(history)),
              LAMBDA e : e.by = t)

WorkflowFailFast(t) ==
    LET f == task[t]
        rs == f.results
        own == OwnEvents(t)
        n == Len(rs)
    IN  /\ n <= Len(f.steps)
        /\ f.error = ""
        /\ \A i \in 1..n :
              /\ rs[i].plugin = f.steps[i].plugin
              /\ rs[i].command = f.steps[i].command
              /\ i < n => rs[i].success
        /\ f.pc = "execute" => (n < Len(f.steps) /\ \A i \in 1..n : rs[i].success)
        /\ f.pc = "done" => (n < Len(f.steps) => (n >= 1 /\ ~rs[n].success))
        /\ Len(own) = 2 * n + (IF f.pc = "execute" THEN 1 ELSE 0)
        /\ \A i \in 1..n :
              /\ own[2 * i - 1].type = "orchestrator.execute.start"
              /\ own[2 * i - 1].plugin = f.steps[i].plugin
              /\ own[2 * i - 1].command = f.steps[i].command
              /\ own[2 * i].type = IF rs[i].success
                                   THEN "orchestrator.execute.done"
                                   ELSE "orchestrator.execute.error"
              /\ own[2 * i].plugin = f.steps[i].plugin
              /\ own[2 * i].command = f.steps[i].command

\* C4: execute_workflow returns one result per step up to and including the
\* first failing step (all earlier ones successful, that one failed) and
\* nothing after it is executed or published; with no failing step it returns
\* one successful result per step.
C4_WorkflowFailFast ==
    \A t \in Tasks : task[t].op = "workflow" => WorkflowFailFast(t)

\* a three-step workflow stopped at its failing second step
C4_Witness ==
    \E t \in Tasks :
        /\ task[t].op = "workflow"
        /\ task[t].pc = "done"
        /\ Len(task[t].steps) = 3
        /\ Len(task[t].results) = 2
        /\ task[t].results[1].success
        /\ ~task[t].results[2].success

\* among the first k events of a sequence, those of one of the given types
CountTypes(evs, k, types) ==
    Cardinality({i \in 1..k : evs[i].type \in types})

Starts(evs, k) == CountTypes(evs, k, {"orchestrator.execute.start"})

Terminals(evs, k) ==
    CountTypes(evs, k, {"orchestrator.execute.done",
                        "orchestrator.execute.error"})

\* at every point of the workflow's own event sequence at most one step has
\* started and not ended, the j-th start is that of the j-th step of the
\* list, and a plugin is being invoked exactly while the last started step
\* has no terminal event yet, and it is that step's plugin
OneStepAtATime(t) ==
    LET f == task[t]
        own == OwnEvents(t)
        n == Len(own)
    IN  /\ \A k \in 0..n : Starts(own, k) - Terminals(own, k) \in {0, 1}
        /\ \A k \in 1..n :
              own[k].type = "orchestrator.execute.start" =>
                  /\ Starts(own, k - 1) = Terminals(own, k - 1)
                  /\ Starts(own, k) <= Len(f.steps)
                  /\ own[k].plugin = f.steps[Starts(own, k)].plugin
                  /\ own[k].command = f.steps[Starts(own, k)].command
        /\ f.pc = "execute" <=> Starts(own, n) = Terminals(own, n) + 1
        /\ f.pc = "execute" =>
              /\ f.name = f.steps[Starts(own, n)].plugin
              /\ f.command = f.steps[Starts(own, n)].command

\* C25: within one execute_workflow call the steps run in list order and
\* one at a time: the start event, the plugin invocation and the terminal
\* event of a step all come before the start event of the next step.
C25_StepsSequential ==
    \A t \in Tasks : task[t].op = "workflow" => OneStepAtATime(t)

\* the third step of a workflow is being invoked: the two steps before it
\* have started and ended, and its start event is the fifth of the call
C25_Witness ==
    \E t \in Tasks :
        /\ task[t].op = "workflow"
        /\ task[t].pc = "execute"
        /\ Len(task[t].steps) = 3
        /\ Len(task[t].results) = 2
        /\ Len(OwnEvents(t)) = 5
        /\ OwnEvents(t)[5].type = "orchestrator.execute.start"

ManagerErrors == {"NotFound", "UnsupportedCommand", "ExecutionFailure"}

OrchestratorResultTyped(t) ==
    LET f == task[t]
    IN  /\ f.error = ""
        /\ (f.op = "orch_execute" /\ f.pc = "done") =>
              /\ Len(f.results) = 1
              /\ f.results[1].plugin = f.steps[1].plugin
              /\ f.results[1].command = f.steps[1].command
              /\ \/ f.results[1] = Success(f.steps[1].plugin, f.steps[1].command)
                 \/ /\ ~f.results[1].success
                    /\ f.results[1].result = "empty"
                    /\ f.results[1].error \in ManagerErrors
                    /\ f.results[1].error # None

\* C5: Orchestrator.execute never raises; every error of the Manager (plugin
\* not found, unsupported command, failure of the plugin's execute) comes back
\* as a result with success = FALSE, the requested plugin and command, an
\* empty result mapping and an error message.
C5_OrchestratorNeverRaises ==
    \A t \in Tasks :
        task[t].op \in {"orch_execute", "workflow"} => OrchestratorResultTyped(t)

\* the plugin's execute raised inside Orchestrator.execute
C5_Witness ==
    \E t \in Tasks :
        /\ task[t].op = "orch_execute"
        /\ task[t].pc = "done"
        /\ task[t].inner = "raised"
        /\ task[t].results[1].error = "ExecutionFailure"
        /\ Has(plugins, task[t].steps[1].plugin)

\* plugin.execute returns to a direct Manager.execute call of task t
ExecuteReturns(t) ==
    /\ task[t].op = "execute"
    /\ task[t].pc = "execute"
    /\ task'[t].pc = "done"

ExecutionFailureIsNotFatal ==
    \A t \in Tasks :
        /\ (ExecuteReturns(t) /\ task'[t].inner = "raised") =>
              /\ task'[t].error = "ExecutionFailure"
              /\ statuses'[task[t].name] = ERROR
              /\ plugins' = plugins
        /\ (ExecuteReturns(t) /\ task'[t].inner = "ok") =>
              /\ task'[t].error = ""
              /\ statuses'[task[t].name] = INITIALIZED
              /\ plugins' = plugins
        /\ \A n \in Names, c \in Commands :
              (Enters(t, "execute") /\ task'[t].name = n /\ task'[t].command = c
                    /\ Has(plugins, n) /\ statuses[n] = ERROR
                    /\ c \in Range(Capabilities(Get(plugins, n)))) =>
                  /\ task'[t].pc = "execute"
                  /\ task'[t].obj = Get(plugins, n)
                  /\ task'[t].error = ""

\* C15: when a registered plugin's execute raises, Manager.execute fails with
\* ExecutionFailure and sets the status to ERROR without touching the
\* registry; a later execute of a supported command is dispatched to the
\* plugin again and, if it succeeds, sets the status back to INITIALIZED.
C15_ExecutionFailureNotFatal == [][ExecutionFailureIsNotFatal]_vars

\* an execute that found the plugin in status ERROR has succeeded
C15_Witness ==
    \E t \in Tasks :
        /\ task[t].op = "execute"
        /\ task[t].pc = "done"
        /\ task[t].inner = "ok"
        /\ task[t].status0 = ERROR
        /\ Has(plugins, task[t].name)
        /\ statuses[task[t].name] = INITIALIZED

\* plugin.initialize raises in the register call of task t
InitializeFails(t) ==
    /\ task[t].op = "register"
    /\ task[t].pc = "initialize"
    /\ task'[t].pc = "done"
    /\ task'[t].error = "InitializationFailure"

FailedRegisterLeavesNoPlugin ==
    \A t \in Tasks :
        InitializeFails(t) =>
            /\ Get(plugins', task[t].name) = None
            /\ Len(plugins') = Len(plugins)
            /\ statuses'[task[t].name] = ERROR
            /\ history' = history

\* C16: when register fails with InitializationFailure the plugin is not in
\* the registry afterwards (get(name) returns nothing, the count is as
\* before), its status is ERROR and no "plugin.registered" event was
\* published for it.
C16_FailedRegister == [][FailedRegisterLeavesNoPlugin]_vars

\* C17 as stated: the handler subscribed to "plugin.registered" finds the
\* plugin in the registry with status INITIALIZED.
C17_SubscriberFindsInitialized ==
    \A t \in Tasks :
        task[t].seen.ran =>
            /\ task[t].seen.stored
            /\ task[t].seen.status = INITIALIZED

RegisteredEvent(t) == Event("plugin.registered", task[t].name, "", "", t)

\* plugin.initialize returns normally in the register call of task t
InitializeSucceeds(t) ==
    /\ task[t].op = "register"
    /\ task[t].pc = "initialize"
    /\ task'[t].pc \in {"notify", "done"}
    /\ task'[t].error = ""

PublishedInStoredState ==
    \A t \in Tasks :
        InitializeSucceeds(t) =>
            /\ Get(plugins', task[t].name) = task[t].obj
            /\ statuses'[task[t].name] = INITIALIZED
            /\ history' = Append(history, RegisteredEvent(t))

OneRegisteredEvent ==
    \A t \in Tasks :
        task[t].op = "register" =>
            OwnEvents(t) = IF task[t].inner = "ok" THEN <<RegisteredEvent(t)>>
                           ELSE <<>>

\* C17 (amended): a register call whose initialize succeeds stores the plugin,
\* sets its status to INITIALIZED and publishes exactly one
\* "plugin.registered" event naming it, and in the state in which the event
\* is published the plugin is in the registry with status INITIALIZED.
C17_PublishedAfterStore == []OneRegisteredEvent /\ [][PublishedInStoredState]_vars

\* a handler subscribed to "plugin.registered" ran and found the plugin stored
\* and INITIALIZED
C17_Witness ==
    \E t \in Tasks :
        /\ task[t].op = "register"
        /\ task[t].pc = "done"
        /\ task[t].seen.ran
        /\ task[t].seen.stored
        /\ task[t].seen.status = INITIALIZED
        /\ OwnEvents(t) = <<RegisteredEvent(t)>>

\* plugin.shutdown returns (or raises) in the unregister call of task t
ShutdownReturns(t) ==
    /\ task[t].op = "unregister"
    /\ task[t].pc = "shutdown"
    /\ task'[t].pc = "done"

UnregisterAlwaysRemoves ==
    \A t \in Tasks :
        /\ ShutdownReturns(t) =>
              /\ task'[t].error = ""
              /\ ~Has(plugins', task[t].name)
              /\ statuses'[task[t].name] = SHUTDOWN
              /\ history' = Append(history,
                      Event("plugin.unregistered", task[t].name, "", "", t))
        /\ \A n \in Names :
              (Enters(t, "unregister") /\ task'[t].name = n /\ ~Has(plugins, n)) =>
                  /\ task'[t].pc = "done"
                  /\ task'[t].error = "NotFound"
                  /\ plugins' = plugins
                  /\ statuses' = statuses
                  /\ history' = history

\* C18: unregister of a registered plugin calls shutdown once and then, whether
\* or not shutdown raised, removes the plugin, sets its status to SHUTDOWN and
\* publishes exactly one "plugin.unregistered" event; unregister of a name
\* that is not registered fails with NotFound and changes nothing.
C18_UnregisterAlwaysRemoves == [][UnregisterAlwaysRemoves]_vars

RegisterNeverReplaces ==
    \A t \in Tasks :
        InitializeSucceeds(t) => ~Has(plugins, task[t].name)

\* C19: names are unique under every interleaving: of two overlapping register
\* calls for the same name at most one succeeds, and the plugin stored by the
\* successful call is not replaced by the other.
C19_OverlappingRegister == [][RegisterNeverReplaces]_vars

ExecuteEvents(t) ==
    LET f == task[t]
        own == OwnEvents(t)
        plugin == f.steps[1].plugin
        command == f.steps[1].command
    IN  /\ Len(own) >= 1
        /\ own[1] = Event("orchestrator.execute.start", plugin, command, "", t)
        /\ f.pc = "execute" => Len(own) = 1
        /\ f.pc = "done" =>
              /\ Len(own) = 2
              /\ Len(f.results) = 1
              /\ own[2] = IF f.results[1].success
                          THEN Event("orchestrator.execute.done", plugin,
                                     command, "", t)
                          ELSE Event("orchestrator.execute.error", plugin,
                                     command, f.results[1].error, t)

\* C20: every Orchestrator.execute call publishes exactly one
\* "orchestrator.execute.start" event before the manager is invoked and then
\* exactly one terminal event: "orchestrator.execute.done" iff it returns
\* success, "orchestrator.execute.error" iff it returns failure, the error
\* event carrying the message of the returned result.
C20_ExecuteEvents ==
    \A t \in Tasks : task[t].op = "orch_execute" => ExecuteEvents(t)

\* an Orchestrator.execute call failed on an unsupported command and published
\* start and error, the error event carrying the returned message
C20_Witness ==
    \E t \in Tasks :
        /\ task[t].op = "orch_execute"
        /\ task[t].pc = "done"
        /\ task[t].results[1].error = "UnsupportedCommand"
        /\ Len(OwnEvents(t)) = 2
        /\ OwnEvents(t)[2].type = "orchestrator.execute.error"
        /\ OwnEvents(t)[2].error = "UnsupportedCommand"

\* every plugin in the registry is INITIALIZED, RUNNING or ERROR
PresentStatuses ==
    \A i \in 1..Len(plugins) :
        statuses[plugins[i].name] \in {INITIALIZED, RUNNING, ERROR}

\* a step that makes a status SHUTDOWN is the return of shutdown in an
\* unregister call for that name, and it removes the plugin
ShutdownOnlyByUnregister ==
    \A n \in Names :
        (statuses'[n] = SHUTDOWN /\ statuses[n] # SHUTDOWN) =>
            /\ \E t \in Tasks : ShutdownReturns(t) /\ task[t].name = n
            /\ Has(plugins, n)
            /\ ~Has(plugins', n)

\* C33: under every interleaving of register, unregister and execute calls a
\* plugin that is in the registry has status INITIALIZED, RUNNING or ERROR,
\* never REGISTERED or SHUTDOWN, and SHUTDOWN is written only by unregister,
\* in the step that removes the plugin.
C33_StatusOfRegistered == []PresentStatuses /\ [][ShutdownOnlyByUnregister]_vars

\* one plugin was unregistered and is SHUTDOWN and gone, another is still
\* registered and INITIALIZED
C33_Witness ==
    /\ statuses["alpha"] = SHUTDOWN /\ ~Has(plugins, "alpha")
    /\ statuses["beta"] = INITIALIZED /\ Has(plugins, "beta")

\* C34: whenever an execute call on a registered plugin is suspended inside
\* the plugin's execute, the plugin's status is RUNNING, also when several
\* execute calls on it overlap and one of them completes before the others.
C34_RunningWhileExecuting ==
    \A t \in Tasks :
        ( /\ task[t].op = "execute"
          /\ task[t].pc = "execute"
          /\ Get(plugins, task[t].name) = task[t].obj )
        => statuses[task[t].name] = RUNNING

\* a status that is SHUTDOWN stays so until a register call for the name
\* returns from initialize
ShutdownUntilRegister ==
    \A n \in Names :
        (statuses[n] = SHUTDOWN /\ statuses'[n] # SHUTDOWN) =>
            \E t \in Tasks :
                /\ task[t].op = "register"
                /\ task[t].name = n
                /\ task[t].pc = "initialize"
                /\ task'[t].pc # "initialize"

\* C35: once unregister(n) has completed the status of n stays SHUTDOWN until
\* a later register call for n, also when an execute call on n was suspended
\* inside the plugin while unregister ran and completes afterwards.
C35_ShutdownIsStable == [][ShutdownUntilRegister]_vars

\* the "plugin.unregistered" events for name n published after the first k
\* events of the history
UnregisteredEvents(n, k) ==
    {i \in (k + 1)..Len(history) :
        history[i].type = "plugin.unregistered" /\ history[i].plugin = n}

\* u entered unregister for the name t was unregistering while t was
\* suspended in shutdown (t had published nothing yet), and both returned
OverlappingUnregisters(t, u) ==
    /\ task[t].op = "unregister" /\ task[u].op = "unregister"
    /\ task[t].name = task[u].name
    /\ task[t].call < task[u].call
    /\ task[t].obj # None
    /\ task[t].hist0 = task[u].hist0
    /\ task[t].pc = "done" /\ task[u].pc = "done"

\* C37: when two unregister calls for one name overlap, shutdown runs once,
\* the plugin is removed once, "plugin.unregistered" is published once, and
\* the other call fails with NotFound and with no other error.
C37_OverlappingUnregister ==
    \A t, u \in Tasks :
        OverlappingUnregisters(t, u) =>
            /\ Cardinality({w \in {t, u} : task[w].inner # ""}) = 1
            /\ Cardinality(UnregisteredEvents(task[t].name, task[t].hist0)) = 1
            /\ {task[t].error, task[u].error} = {"", "NotFound"}

\* a register call returns its PluginInfo
RegisterReturnsInfo(t) ==
    /\ task[t].op = "register"
    /\ task[t].pc \in {"initialize", "notify"}
    /\ task'[t].pc = "done"
    /\ task'[t].error = ""

ReturnedInfoIsCurrent ==
    \A t \in Tasks :
        RegisterReturnsInfo(t) =>
            /\ task'[t].info = INITIALIZED
            /\ task'[t].info = statuses'[task[t].name]

\* C38: the PluginInfo a successful register returns carries the status the
\* manager holds for the plugin at that moment, INITIALIZED, which is what
\* list_plugins reports for it immediately afterwards.
C38_ReturnedInfoStatus == [][ReturnedInfoIsCurrent]_vars

\* the plugin objects of the candidates a discover has registered so far, in
\* scan order
RegisteredCandidates(f) ==
    LET idx == SelectSeq([i \in 1..Len(f.scanned) |-> i],
                         LAMBDA i : f.scanned[i] = "registered")
    IN  [k \in 1..Len(idx) |-> f.steps[idx[k]].obj]

\* the "plugin.registered" events published by caller t since its call began
RegisteredEventsOf(t) ==
    Cardinality({i \in (task[t].hist0 + 1)..Len(history) :
                    /\ history[i].type = "plugin.registered"
                    /\ history[i].by = t})

\* what became of a child agrees with what the child is
OutcomeAgrees(child, outcome) ==
    CASE child.kind \in SkippedKinds -> outcome = "skipped"
      [] child.kind \in RaisingKinds -> outcome = "failed"
      [] OTHER -> outcome \in {"skipped", "registered", "failed"}

\* discover does not raise, what it returns is one info per candidate it
\* registered, each of them registered once, and when it returns every
\* child has been scanned
DiscoverIsolates ==
    \A t \in Tasks :
        task[t].op = "discover" =>
            LET f == task[t]
            IN  /\ f.error = ""
                /\ Len(f.scanned) <= Len(f.steps)
                /\ \A i \in 1..Len(f.scanned) :
                        OutcomeAgrees(f.steps[i], f.scanned[i])
                /\ f.results = RegisteredCandidates(f)
                /\ RegisteredEventsOf(t) =
                        Len(f.results) + (IF f.pc = "notify" THEN 1 ELSE 0)
                /\ f.pc = "done" => Len(f.scanned) = Len(f.steps)
                /\ f.pc \in {"initialize", "notify"} =>
                        /\ Len(f.scanned) < Len(f.steps)
                        /\ f.steps[Len(f.scanned) + 1].kind = "plugin"
                        /\ f.steps[Len(f.scanned) + 1].obj = f.obj

\* the children a step of discover by t has dealt with
NewlyScanned(t) ==
    IF task'[t].op # "discover" THEN {}
    ELSE IF task[t].op = "discover" /\ task[t].call = task'[t].call
    THEN (Len(task[t].scanned) + 1)..Len(task'[t].scanned)
    ELSE 1..Len(task'[t].scanned)

\* a plugin candidate is passed over only if its name is registered at that
\* moment, and one whose initialize failed is left with status ERROR
DiscoverSkipsRegisteredOnly ==
    \A t \in Tasks : \A i \in NewlyScanned(t) :
        LET child == task'[t].steps[i]
        IN  child.kind = "plugin" =>
                /\ task'[t].scanned[i] = "skipped" =>
                        Has(plugins', NameOf(child.obj))
                /\ task'[t].scanned[i] = "failed" =>
                        statuses'[NameOf(child.obj)] = ERROR

\* C31: discover never raises to its caller and isolates each candidate: it
\* returns exactly one PluginInfo per candidate it newly registered, passes
\* over children without entry module, with a non-conforming export or with
\* a name that is registered already, and a candidate whose import,
\* construction or initialization fails does not stop the scan of the
\* remaining ones.
C31_DiscoverIsolates == []DiscoverIsolates /\ [][DiscoverSkipsRegisteredOnly]_vars

\* a discover has returned one info: its first candidate failed to
\* initialize, its second one is registered
C31_Witness ==
    /\ task["t1"].op = "discover" /\ task["t1"].pc = "done"
    /\ task["t1"].steps = <<[kind |-> "plugin", obj |-> "alpha#1"],
                            [kind |-> "plugin", obj |-> "beta#1"]>>
    /\ task["t1"].scanned = <<"failed", "registered">>
    /\ task["t1"].results = <<"beta#1">>
    /\ statuses["alpha"] = ERROR
    /\ Get(plugins, "beta") = "beta#1"

(***************************************************************************)
(* Properties of command routing                                           *)
(***************************************************************************)

\* caller t is in, or has returned from, a route call
Routing(t) == task[t].op = "route"

\* route went by keywords: the orchestrator has no client
ByKeywords(t) == Routing(t) /\ task[t].answer = NoClient

\* the lower-cased name occurs in the lower-cased text
NameOccurs(name, text) == Occurs(Lower(Spell(name)), Lower(TextChars(text)))

\* the name occurs in the text as it is written
NameOccursVerbatim(name, text) == Occurs(Spell(name), TextChars(text))

\* the fragments of a capability name as it is written
Fragments(cap) == Split(Replace(Replace(Spell(cap), "-", " "), "_", " "))

\* the fragments of the lower-cased capability name
FoldedFragments(cap) ==
    Split(Replace(Replace(Lower(Spell(cap)), "-", " "), "_", " "))

\* how many fragments of the capability name as written occur in the
\* lower-cased text
ScoreAsWritten(cap, text) ==
    Cardinality({i \in 1..Len(Fragments(cap)) :
                    Occurs(Fragments(cap)[i], Lower(TextChars(text)))})

\* how many fragments of the lower-cased capability name occur in the
\* lower-cased text
ScoreFolded(cap, text) ==
    Cardinality({i \in 1..Len(FoldedFragments(cap)) :
                    Occurs(FoldedFragments(cap)[i], Lower(TextChars(text)))})

\* the (plugin, capability) pair of highest score, the first in
\* registry-then-capability order among equals, if that score is above 0
HighestPair(infos, text, ScoreOp(_, _)) ==
    LET pairs == UNION {{<<i, k>> : k \in 1..Len(infos[i].capabilities)} :
                            i \in 1..Len(infos)}
        S(a) == ScoreOp(infos[a[1]].capabilities[a[2]], text)
        Before(a, b) == a[1] < b[1] \/ (a[1] = b[1] /\ a[2] <= b[2])
        best == {a \in pairs :
                    /\ S(a) > 0
                    /\ \A b \in pairs :
                          S(b) < S(a) \/ (S(b) = S(a) /\ Before(a, b))}
    IN  IF best = {} THEN Unresolved
        ELSE LET a == CHOOSE a \in best : TRUE
             IN  Resolved(infos[a[1]].name, infos[a[1]].capabilities[a[2]],
                          "text")

\* route returned the unresolved failure and did nothing else
UnresolvedFailure(t) ==
    LET f == task[t]
    IN  /\ f.pc = "done"
        /\ Len(f.results) = 1
        /\ ~f.results[1].success
        /\ f.results[1].plugin = "" /\ f.results[1].command = ""
        /\ f.results[1].error \notin {"", None}
        /\ f.obj = None /\ f.inner = ""
        /\ Len(history) = f.hist0
        /\ \A i \in 1..Len(history) : history[i].type = "plugin.registered"
        /\ \A n \in RoutedNames :
              statuses[n] = IF Has(plugins, n) THEN INITIALIZED ELSE Absent

\* C21: when command parsing resolves nothing (no plugin is registered, or
\* by keywords no name matches and no capability scores above 0), route
\* returns one failed result with empty plugin and command and a non-empty
\* error and does not call execute: no plugin is invoked, no status changes,
\* no "orchestrator.execute.*" event is published.
C21_UnresolvedRoute ==
    \A t \in Tasks :
        Routing(t) =>
            /\ plugins = <<>> => task[t].parsed = Unresolved
            /\ ( /\ ByKeywords(t)
                 /\ \A i \in 1..Len(plugins) :
                       /\ ~NameOccurs(plugins[i].name, task[t].text)
                       /\ \A k \in 1..Len(Capabilities(plugins[i].obj)) :
                             ScoreFolded(Capabilities(plugins[i].obj)[k],
                                         task[t].text) = 0 )
                  => task[t].parsed = Unresolved
            /\ task[t].parsed = Unresolved => UnresolvedFailure(t)

\* a text of two words routed by keywords on a registry of two plugins
\* resolved to nothing
C21_Witness ==
    \E t \in Tasks :
        /\ ByKeywords(t)
        /\ Len(plugins) = 2 /\ Len(task[t].text) = 2
        /\ Capabilities(plugins[1].obj) # <<>>
        /\ task[t].parsed = Unresolved
        /\ task[t].pc = "done"

\* the first plugin in registry order that declares a capability and whose
\* name occurs in the text, or 0
FirstNamed(ps, text) ==
    LET named == {i \in 1..Len(ps) :
                    /\ Capabilities(ps[i].obj) # <<>>
                    /\ NameOccurs(ps[i].name, text)}
    IN  IF named = {} THEN 0
        ELSE CHOOSE i \in named : \A j \in named : i <= j

\* route resolved to plugin p and its first declared capability with the
\* text as payload
ResolvedToFirstCapability(t, p) ==
    task[t].parsed = Resolved(p.name, Capabilities(p.obj)[1], "text")

\* C22: with keyword routing, if the name of a registered plugin that
\* declares at least one capability occurs in the input text, route resolves
\* to that plugin and its first declared capability with payload
\* {text: input} and executes it successfully, whatever the other plugins'
\* capabilities score.
C22_NameMatchSucceeds ==
    \A t \in Tasks :
        ByKeywords(t) =>
            \A i \in 1..Len(plugins) :
                ( /\ Capabilities(plugins[i].obj) # <<>>
                  /\ NameOccursVerbatim(plugins[i].name, task[t].text) )
                =>  /\ ResolvedToFirstCapability(t, plugins[i])
                    /\ task[t].pc = "done" =>
                          /\ Len(task[t].results) = 1
                          /\ task[t].results[1].success

\* C22 as amended: the first plugin in registry order that declares a
\* capability and whose lower-cased name occurs in the lower-cased text is
\* resolved with its first capability and the text as payload, whatever the
\* capabilities score; execute is called for that pair, and the result is
\* successful exactly if the plugin's execute returns normally.
C22_FirstNameMatchExecuted ==
    \A t \in Tasks :
        (ByKeywords(t) /\ FirstNamed(plugins, task[t].text) # 0) =>
            LET p == plugins[FirstNamed(plugins, task[t].text)]
                f == task[t]
                own == OwnEvents(t)
            IN  /\ ResolvedToFirstCapability(t, p)
                /\ Len(own) >= 1
                /\ own[1] = Event("orchestrator.execute.start", p.name,
                                  Capabilities(p.obj)[1], "", t)
                /\ f.pc = "execute" => f.obj = p.obj
                /\ f.pc = "done" =>
                      /\ Len(f.results) = 1
                      /\ f.results[1].plugin = p.name
                      /\ f.results[1].command = Capabilities(p.obj)[1]
                      /\ f.results[1].success <=> f.inner = "ok"
                      /\ f.inner \in {"ok", "raised"}

\* both plugins are named in the text, the second of the registry first;
\* the first of the registry was resolved, with its first capability although
\* its second capability scores too, and it was executed successfully
C22_Witness ==
    \E t \in Tasks :
        /\ ByKeywords(t)
        /\ Len(plugins) = 2
        /\ plugins[1].name = "alpha"
        /\ task[t].text = <<plugins[2].name, "alpha">>
        /\ task[t].parsed = Resolved("alpha", "generate", "text")
        /\ task[t].pc = "done"
        /\ task[t].results[1].success

\* no registered plugin's name occurs in the text as written
NoNameVerbatim(t) ==
    \A i \in 1..Len(plugins) :
        ~NameOccursVerbatim(plugins[i].name, task[t].text)

\* no registered plugin's lower-cased name occurs in the lower-cased text
NoName(t) ==
    \A i \in 1..Len(plugins) : ~NameOccurs(plugins[i].name, task[t].text)

\* C23: with keyword routing and no plugin name occurring in the input, the
\* resolved pair is the (plugin, capability) pair of highest score, the
\* score counting the fragments of the capability name (split on blanks,
\* '-' and '_') that occur in the lower-cased input; the first pair in
\* registry-then-capability order wins among equals; a highest score of 0
\* is no match.
C23_HighestScore ==
    \A t \in Tasks :
        (ByKeywords(t) /\ NoNameVerbatim(t)) =>
            task[t].parsed =
                HighestPair(list_plugins(plugins), task[t].text, ScoreAsWritten)

\* C23 as amended: names and capability fragments are compared lower-cased.
\* With no plugin's lower-cased name occurring in the lower-cased input, the
\* resolved pair is the pair of highest score, the score counting the
\* fragments of the lower-cased capability name that occur in the
\* lower-cased input; first in registry-then-capability order among equals;
\* no match if the highest score is 0.
C23_HighestFoldedScore ==
    \A t \in Tasks :
        (ByKeywords(t) /\ NoName(t)) =>
            task[t].parsed =
                HighestPair(list_plugins(plugins), task[t].text, ScoreFolded)

\* "Reports" scores one for alpha's second capability and one for beta's
\* only capability: alpha, registered first, wins with its second capability
C23_Witness ==
    \E t \in Tasks :
        /\ ByKeywords(t)
        /\ NoName(t)
        /\ plugins = RegistryOf(<<"alpha#1", "beta#1">>)
        /\ task[t].text = <<"x", "Reports">>
        /\ task[t].parsed = Resolved("alpha", "report", "text")

\* replies that are one JSON object with a plugin and a command
ObjectReplies ==
    {"{\"plugin\": \"beta\", \"command\": \"report\", \"payload\": {\"n\": 1}}",
     "{\"plugin\": \"ghost\", \"command\": \"generate\"}"}

\* the literal null, alone or between blanks
NullReplies == {"null", " null\n"}

\* C24: with the AI-assisted parser, a reply that is one JSON object
\* resolves to its (plugin, command, payload); the literal null resolves to
\* no match and the keyword fallback is not consulted; a transport failure
\* or a reply that cannot be parsed resolves to what the keyword fallback
\* returns for the same text.
C24_AssistedParse ==
    \A t \in Tasks :
        (Routing(t) /\ task[t].answer # NoClient /\ plugins # <<>>) =>
            LET f == task[t]
                c == f.answer.content
            IN  IF f.answer.failure
                THEN f.parsed = parse_with_keywords(plugins, f.text)
                ELSE /\ c = "{\"plugin\": \"beta\", \"command\": \"report\", \"payload\": {\"n\": 1}}"
                          => f.parsed = Resolved("beta", "report", "given")
                     /\ c = "{\"plugin\": \"ghost\", \"command\": \"generate\"}"
                          => f.parsed = Resolved("ghost", "generate", "empty")
                     /\ c \in NullReplies =>
                          f.parsed = Unresolved /\ UnresolvedFailure(t)
                     /\ c \notin ObjectReplies \cup NullReplies =>
                          f.parsed = parse_with_keywords(plugins, f.text)

\* the model replied null to a text that names a registered plugin: no
\* match, although the keyword fallback would have resolved it
C24_Witness ==
    \E t \in Tasks :
        /\ Routing(t)
        /\ task[t].answer = [failure |-> FALSE, content |-> " null\n"]
        /\ parse_with_keywords(plugins, task[t].text) # Unresolved
        /\ task[t].parsed = Unresolved
        /\ task[t].pc = "done"

(***************************************************************************)
(* Properties of the event bus                                             *)
(***************************************************************************)

CountStatus(results, status) ==
    Cardinality({i \in 1..Len(results) : results[i].status = status})

RaisingAmong(coros) == Cardinality({i \in 1..Len(coros) : Raises(coros[i])})

\* C3: a publish to N subscribed handlers of which k raise does not raise,
\* runs all N handlers to completion and returns N outcomes, k of them with
\* status "error" and N - k with status "ok".
C3_PublishIsolatesFailures ==
    \A q \in Publishers :
        pub[q].pc = "done" =>
            /\ ~pub[q].raised
            /\ \A i \in 1..Len(pub[q].outcomes) : pub[q].outcomes[i] # "pending"
            /\ Len(pub[q].results) = Len(pub[q].coros)
            /\ CountStatus(pub[q].results, "error") = RaisingAmong(pub[q].coros)
            /\ CountStatus(pub[q].results, "ok") =
                  Len(pub[q].coros) - RaisingAmong(pub[q].coros)

Min(a, b) == IF a < b THEN a ELSE b

\* this step is a publish by caller q
PublishStep(q) == publishes' = publishes + 1 /\ pub'[q] # pub[q]

\* the history holds the n most recent published events
HistoryBounded ==
    /\ Len(history) <= MAX_HISTORY
    /\ Len(history) = Min(publishes, MAX_HISTORY)

\* a publish puts its event last and keeps the events before it in order,
\* dropping from the front what no longer fits
PublishShiftsHistory ==
    \A q \in Publishers :
        PublishStep(q) =>
            LET n == Len(history')
                dropped == Len(history) + 1 - n
            IN  /\ n = Min(publishes', MAX_HISTORY)
                /\ history'[n] = Event(pub'[q].type, "", "", "", q)
                /\ \A i \in 1..(n - 1) : history'[i] = history[i + dropped]

\* C26: the history never holds more than 100 events, and after n publishes
\* it holds the min(n, 100) most recent published events in publish order:
\* every publish appends its event and the oldest events are dropped first.
C26_HistoryRingBuffer == []HistoryBounded /\ [][PublishShiftsHistory]_vars

\* more events were published than the history holds, and the oldest is gone
C26_Witness ==
    /\ publishes = MAX_HISTORY + 2
    /\ Len(history) = MAX_HISTORY
    /\ history[MAX_HISTORY].type = "orchestrator.execute.start"
    /\ history[1].type = "orchestrator.execute.start"

\* C27: for every limit >= 0, 0 included, get_history(limit) returns the
\* min(limit, number of recorded events) most recent events, oldest first,
\* and never more than limit events.
C27_GetHistoryLimit ==
    \A q \in Publishers :
        pub[q].op = "get_history" =>
            LET n == Min(pub[q].limit, Len(history))
            IN  /\ Len(pub[q].got) = n
                /\ Len(pub[q].got) <= pub[q].limit
                /\ \A i \in 1..n :
                      pub[q].got[i] = history[Len(history) - n + i]

\* the event of the publish call caller q is in, or has returned from
PublishedEvent(q) == Event(pub[q].type, "", "", "", q)

AllPending(q) ==
    \A i \in 1..Len(pub[q].outcomes) : pub[q].outcomes[i] = "pending"

\* C28: a publish of an event whose type has no subscriber does not raise
\* and returns an empty list, and the event is recorded all the same; every
\* published event is in the history before any handler for it starts, that
\* is, already in the state in which all its handlers are still pending.
C28_RecordedBeforeHandlers ==
    /\ Len(history) = publishes
    /\ \A q \in Publishers :
          pub[q].op = "publish" =>
              /\ \E i \in 1..Len(history) : history[i] = PublishedEvent(q)
              /\ pub[q].coros = <<>> =>
                    /\ pub[q].pc = "done"
                    /\ pub[q].results = <<>>
                    /\ ~pub[q].raised

\* one publish has returned an empty list for a type without subscribers
\* while the handlers of another, recorded, publish have not started
C28_Witness ==
    /\ pub["p2"].op = "publish" /\ pub["p2"].pc = "done"
    /\ pub["p2"].coros = <<>> /\ pub["p2"].results = <<>>
    /\ pub["p1"].pc = "gather" /\ AllPending("p1")
    /\ history = <<PublishedEvent("p1"), PublishedEvent("p2")>>

NoDuplicates(seq) ==
    \A i, j \in 1..Len(seq) : i # j => seq[i] # seq[j]

\* C29: after any sequence of subscribe and unsubscribe calls a handler is
\* at most once in the list of a type, and so at most once among the
\* coroutines of a publish; subscribing a handler that is subscribed leaves
\* the table as it is, and so does unsubscribing one that is not.
C29_SubscribeIdempotent ==
    /\ \A ty \in EventTypes :
          /\ NoDuplicates(handlers[ty])
          /\ \A h \in Handlers :
                IF \E i \in 1..Len(handlers[ty]) : handlers[ty][i] = h
                THEN Subscribed(handlers, ty, h) = handlers
                ELSE Unsubscribed(handlers, ty, h) = handlers
    /\ \A q \in Publishers : NoDuplicates(pub[q].coros)

\* two handlers are subscribed and one is not, after one handler was
\* removed, and a publish has one coroutine for each subscribed handler
C29_Witness ==
    \E ty \in EventTypes :
        /\ handlers[ty] = <<"failing_handler", "ok_handler">>
        /\ pub["p1"].pc = "gather"
        /\ pub["p1"].coros = <<"once_handler", "failing_handler">>
        /\ pub["p2"].pc = "gather"
        /\ pub["p2"].coros = handlers[ty]

\* a publish that has returned, or waits in gather, has one outcome slot per
\* coroutine, and after the return none is pending
GatherComplete ==
    \A q \in Publishers :
        pub[q].op = "publish" =>
            /\ Len(pub[q].outcomes) = Len(pub[q].coros)
            /\ pub[q].pc = "done" => \A i \in 1..Len(pub[q].outcomes) :
                                         pub[q].outcomes[i] \in {"ok", "error"}

\* a publish starts one coroutine for every handler subscribed to the type
\* at that moment, in list order; the step that returns from a gather finds
\* every coroutine completed
ScatterGatherStep ==
    \A q \in Publishers :
        /\ PublishStep(q) =>
              /\ pub'[q].coros = handlers[pub'[q].type]
              /\ \A i \in 1..Len(pub'[q].outcomes) :
                    pub'[q].outcomes[i] = "pending"
        /\ (pub[q].pc = "gather" /\ pub'[q].pc = "done") =>
              /\ \A i \in 1..Len(pub[q].coros) :
                    pub[q].outcomes[i] \in {"ok", "error"}
              /\ pub'[q].outcomes = pub[q].outcomes

\* C30: publish is scatter-gather: every handler subscribed to the type is
\* started for the publish, and the publish returns only when each of them
\* has completed, with or without an error, also while another publish is
\* in flight.
C30_ScatterGather == []GatherComplete /\ [][ScatterGatherStep]_vars

\* one publish has returned after its three handlers completed, one of them
\* with an error, while the handlers of another publish are still pending
C30_Witness ==
    /\ pub["p1"].op = "publish" /\ pub["p1"].pc = "done"
    /\ Len(pub["p1"].coros) = 3
    /\ \E i \in 1..3 : pub["p1"].outcomes[i] = "error"
    /\ pub["p2"].pc = "gather" /\ Len(pub["p2"].coros) = 3
    /\ AllPending("p2")

\* the outcomes of a publish as the coroutines produced them: one per
\* coroutine, in the order the coroutines were started, each with the
\* handler the coroutine ran
OutcomesByCoroutine(q) ==
    [i \in 1..Len(pub[q].coros) |->
        [handler |-> pub[q].coros[i], status |-> pub[q].outcomes[i]]]

\* C36: a publish returns exactly one outcome for every handler that was
\* subscribed to the type when the publish began, in subscription order,
\* each labelled with the handler that produced it, also when a handler
\* subscribes or unsubscribes while the handlers are being dispatched.
C36_OutcomePerHandler ==
    \A q \in Publishers :
        (pub[q].op = "publish" /\ pub[q].pc = "done") =>
            pub[q].results = OutcomesByCoroutine(q)

(***************************************************************************)
(* Properties of the content pipeline                                      *)
(***************************************************************************)

Exists(id) == contents[id] # NoContent

\* the step is an advance_pipeline call on an existing record id
AdvanceStepOn(id) ==
    /\ pipeCall'.op = "advance"
    /\ pipeCall'.id = id
    /\ Exists(id)
    /\ contents'[id] # NoContent

ImmediatelyFollows(a, b) ==
    \E i \in 1..(Len(PIPELINE_ORDER) - 1) :
        PIPELINE_ORDER[i] = a /\ PIPELINE_ORDER[i + 1] = b

StagesValid ==
    \A id \in ContentIds : Exists(id) => contents[id].pipeline_stage \in PIPELINE_STAGES

AdvanceMovesOneStep ==
    \A id \in ContentIds :
        AdvanceStepOn(id) =>
            \/ contents'[id].pipeline_stage = contents[id].pipeline_stage
            \/ ImmediatelyFollows(contents[id].pipeline_stage,
                                  contents'[id].pipeline_stage)
            \/ contents'[id].pipeline_stage = "failed"

\* C6: pipeline_stage is always one of the eight stage names, and one advance
\* call leaves the stage unchanged, moves it to the immediately following
\* stage of PIPELINE_ORDER, or sets it to "failed" (no skip, no step back).
C6_StageStepsForward == []StagesValid /\ [][AdvanceMovesOneStep]_vars

\* the script handler succeeded and advance moved the record script -> image
C6_Witness ==
    /\ pipeCall.op = "advance"
    /\ pipeCall.from_stage = "script"
    /\ pipeCall.result.success
    /\ contents[pipeCall.id].pipeline_stage = "image"

CostOnlyGrowsByHandlerSuccess ==
    \A id \in ContentIds :
        /\ AdvanceStepOn(id) =>
            /\ contents'[id].cost_usd >= contents[id].cost_usd
            /\ contents'[id].cost_usd # contents[id].cost_usd =>
                    /\ pipeCall'.handler # "None"
                    /\ pipeCall'.result.success
                    /\ contents'[id].cost_usd =
                          contents[id].cost_usd + pipeCall'.result.cost_usd
        /\ (pipeCall'.op = "advance" /\ pipeCall'.id # id /\ Exists(id)) =>
                contents'[id] = contents[id]

\* C7: across advance calls the cost accumulator never decreases and changes
\* only in an advance whose stage handler returned success; so a cost charged
\* at the script stage is still there when the record is at done and beyond.
C7_CostMonotone == [][CostOnlyGrowsByHandlerSuccess]_vars

\* a record that was charged at the script stage has been advanced at "done"
C7_Witness ==
    /\ pipeCall.op = "advance"
    /\ pipeCall.from_stage = "done"
    /\ contents[pipeCall.id].pipeline_stage = "done"
    /\ contents[pipeCall.id].cost_usd > 0

HandlerDiagnostics == {ErrNoKey, ErrNetwork, ErrHttp(401), ErrHttp(500)}

ScriptFailureStep(id) ==
    /\ AdvanceStepOn(id)
    /\ contents[id].pipeline_stage = "script"
    /\ ~pipeCall'.result.raised
    /\ ~pipeCall'.result.success

ScriptFailureRecorded ==
    \A id \in ContentIds :
        ScriptFailureStep(id) =>
            /\ contents'[id].pipeline_stage = "failed"
            /\ contents'[id].error_message = pipeCall'.result.error
            /\ contents'[id].error_message \in HandlerDiagnostics
            /\ contents'[id].error_message # ""
            /\ contents'[id].cost_usd = contents[id].cost_usd
            /\ contents'[id].script = contents[id].script

\* C8: advance at "script" with a handler that reports failure sets the stage
\* to "failed", stores the handler's non-empty diagnostic in error_message and
\* leaves cost and script unchanged.
C8_ScriptFailure == [][ScriptFailureRecorded]_vars

\* a failing script handler on a record that already carries cost and script
C8_Witness ==
    /\ pipeCall.op = "advance"
    /\ pipeCall.from_stage = "script"
    /\ pipeCall.handler = "ScriptGenerator"
    /\ ~pipeCall.result.success /\ ~pipeCall.result.raised
    /\ contents[pipeCall.id].pipeline_stage = "failed"
    /\ contents[pipeCall.id].cost_usd > 0
    /\ contents[pipeCall.id].script = "generated"

\* C9: ScriptGenerator.execute never raises, and every outcome other than a
\* 2xx answer with a well-formed body yields success = FALSE with next_stage
\* "failed".
C9_HandlerNeverRaises ==
    pipeCall.handler = "ScriptGenerator" =>
        /\ ~pipeCall.result.raised
        /\ (~pipeCall.has_key \/ pipeCall.resp_kind # "ok") =>
              /\ ~pipeCall.result.success
              /\ pipeCall.result.next_stage = "failed"

OutsideOrder(stage) ==
    stage \notin {PIPELINE_ORDER[i] : i \in 1..Len(PIPELINE_ORDER)}

FailedIsStuck ==
    \A id \in ContentIds :
        (AdvanceStepOn(id) /\ OutsideOrder(contents[id].pipeline_stage)) =>
            /\ contents'[id] = contents[id]
            /\ pipeCall'.handler = "None"
            /\ ~pipeCall'.result.called_api

\* C10: advance on a record at "failed" (any stage outside PIPELINE_ORDER)
\* invokes no handler and changes nothing, so advance calls alone never move
\* a record off "failed".
C10_NoRetry == [][FailedIsStuck]_vars

\* advance was called on a record that had failed with a diagnostic
C10_Witness ==
    /\ pipeCall.op = "advance"
    /\ pipeCall.from_stage = "failed"
    /\ contents[pipeCall.id].pipeline_stage = "failed"
    /\ contents[pipeCall.id].error_message # ""

DoneIsFinal ==
    \A id \in ContentIds :
        (AdvanceStepOn(id) /\ contents[id].pipeline_stage = "done") =>
            /\ contents'[id] = contents[id]
            /\ pipeCall'.handler = "None"
            /\ ~pipeCall'.result.called_api

\* C11: advance on a record at "done" is a no-op, each time it is repeated:
\* stage, cost, script and error_message stay as they are and no handler is
\* invoked.
C11_DoneNoOp == [][DoneIsFinal]_vars

\* advance was called on a record at "done" that carries a script and a cost
C11_Witness ==
    /\ pipeCall.op = "advance"
    /\ pipeCall.from_stage = "done"
    /\ contents[pipeCall.id].pipeline_stage = "done"
    /\ contents[pipeCall.id].script = "generated"
    /\ contents[pipeCall.id].cost_usd = 7950

UnhandledStages == {"pending", "image", "voice", "video", "publish"}

\* the stage that follows an unhandled stage in the documented sequence
StageAfter(stage) ==
    CASE stage = "pending" -> "script"
      [] stage = "image" -> "voice"
      [] stage = "voice" -> "video"
      [] stage = "video" -> "publish"
      [] stage = "publish" -> "done"

PassThroughStep ==
    \A id \in ContentIds :
        (AdvanceStepOn(id) /\ contents[id].pipeline_stage \in UnhandledStages) =>
            /\ contents'[id].pipeline_stage = StageAfter(contents[id].pipeline_stage)
            /\ contents'[id].cost_usd = contents[id].cost_usd
            /\ contents'[id].script = contents[id].script
            /\ contents'[id].error_message = contents[id].error_message
            /\ pipeCall'.handler = "None"
            /\ ~pipeCall'.result.called_api

ScriptSuccessStep(id) ==
    /\ AdvanceStepOn(id)
    /\ contents[id].pipeline_stage = "script"
    /\ pipeCall'.has_key
    /\ pipeCall'.resp_kind = "ok"

ScriptSuccessCharged ==
    \A id \in ContentIds :
        ScriptSuccessStep(id) =>
            /\ contents'[id].pipeline_stage = "image"
            /\ contents'[id].script = "generated"
            /\ contents'[id].error_message = contents[id].error_message
            /\ contents'[id].cost_usd - contents[id].cost_usd =
                  3 * pipeCall'.input_tokens + 15 * pipeCall'.output_tokens
            /\ (pipeCall'.input_tokens = 150 /\ pipeCall'.output_tokens = 500) =>
                  contents'[id].cost_usd - contents[id].cost_usd = 7950

\* C13: advance at "script" with a handler that succeeds reporting i input and
\* o output tokens sets the stage to "image" and the script to the generated
\* text, leaves error_message unchanged and adds exactly 3*i + 15*o millionths
\* of a dollar to the cost (7950 for i = 150, o = 500).
C13_ScriptSuccess == [][ScriptSuccessCharged]_vars

\* 150 input and 500 output tokens were charged on a record without a script
C13_Witness ==
    /\ pipeCall.op = "advance"
    /\ pipeCall.from_stage = "script"
    /\ pipeCall.resp_kind = "ok"
    /\ pipeCall.input_tokens = 150
    /\ pipeCall.output_tokens = 500
    /\ contents[pipeCall.id].pipeline_stage = "image"
    /\ contents[pipeCall.id].cost_usd = 7950

StageChangePublishes ==
    \A id \in ContentIds :
        AdvanceStepOn(id) =>
            IF contents'[id].pipeline_stage # contents[id].pipeline_stage
            THEN /\ Len(history') = Len(history) + 1
                 /\ history'[Len(history')].type = "content.pipeline.advanced"
            ELSE history' = history

\* C14: every advance that changes the stage (pass-through, handler success,
\* or failure) publishes exactly one "content.pipeline.advanced" event on the
\* bus; an advance that is a no-op publishes none.
C14_AdvancePublishes == [][StageChangePublishes]_vars

\* the step is an advance_pipeline call on record id that reached no handler
\* with a credential: one made with no config, or one on a stage that has no
\* handler
AdvancedWithoutConfig(id) == AdvanceStepOn(id) /\ ~pipeCall'.has_key

NoConfigAdvanceFollowsOrder ==
    \A id \in ContentIds :
        (AdvancedWithoutConfig(id) /\ InOrder(contents[id].pipeline_stage)) =>
            IF contents[id].pipeline_stage = "done"
            THEN contents'[id].pipeline_stage = "done"
            ELSE ImmediatelyFollows(contents[id].pipeline_stage,
                                    contents'[id].pipeline_stage)

\* C32: from a freshly created record at "pending", successive advance calls
\* made with no config visit script, image, voice, video, publish and done
\* in this order, one stage per call, and a further call leaves the record
\* at "done".
C32_NoConfigFullPipeline == [][NoConfigAdvanceFollowsOrder]_vars

\* C39: a record whose stage is changed only by the REST advance endpoint,
\* called again and again, reaches "image" and eventually "done".
C39_RestReachesDone ==
    \A id \in ContentIds :
        (Exists(id) /\ updates = 0) ~>
            (updates > 0 \/ (Exists(id) /\ contents[id].pipeline_stage = "done"))

====
